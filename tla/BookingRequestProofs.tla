------------------------ MODULE BookingRequestProofs ------------------------
(***************************************************************************)
(* Theorems about BookingRequest, for any requests, keys and bodies, any   *)
(* number of slots and threads, and any pool that is larger than the       *)
(* number of slots.                                                        *)
(***************************************************************************)
EXTENDS BookingRequest, FiniteSetTheorems, TLAPS

----------------------------------------------------------------------------
(* Slots, threads and connections.                                         *)

\* Who holds a connection or a thread holds a slot, and slots are limited.
SlotsInv ==
  /\ AdmissionTypeOK
  /\ IsFiniteSet(slots) /\ Cardinality(slots) <= MaxConcurrent
  /\ IsFiniteSet(threads)

LEMMA SlotsInit == AdmissionInit => SlotsInv
<1> SUFFICES ASSUME AdmissionInit PROVE SlotsInv
  OBVIOUS
<1>1. IsFiniteSet({}) /\ Cardinality({}) = 0
  BY FS_EmptySet
<1>2. 0 <= MaxConcurrent /\ 0 <= Threads
  BY AdmissionAssumption DEF AdmissionAssumption
<1>3. slots = {} /\ threads = {} /\ conns = {} /\ socket \in BOOLEAN
  BY DEF AdmissionInit
<1>4. /\ IsFiniteSet(slots) /\ Cardinality(slots) <= MaxConcurrent
      /\ IsFiniteSet(threads) /\ Cardinality(threads) <= Threads
  BY <1>1, <1>2, <1>3
<1> QED
  BY <1>3, <1>4 DEF SlotsInv, AdmissionTypeOK

\* A set that loses a member stays within its bound.
LEMMA SmallerSet ==
  ASSUME NEW S, NEW x, NEW n \in Nat, IsFiniteSet(S), Cardinality(S) <= n
  PROVE  IsFiniteSet(S \ {x}) /\ Cardinality(S \ {x}) <= n
  BY FS_RemoveElement, FS_CardinalityType

\* A set below its bound may gain a member.
LEMMA LargerSet ==
  ASSUME NEW S, NEW x, NEW n \in Nat, IsFiniteSet(S), Cardinality(S) < n
  PROVE  IsFiniteSet(S \cup {x}) /\ Cardinality(S \cup {x}) <= n
<1>1. Cardinality(S) \in Nat
  BY FS_CardinalityType
<1>2. /\ IsFiniteSet(S \cup {x})
      /\ Cardinality(S \cup {x}) = IF x \in S THEN Cardinality(S) ELSE Cardinality(S) + 1
  BY FS_AddElement
<1> QED
  BY <1>1, <1>2

LEMMA AdmitSlots ==
  ASSUME SlotsInv, NEW r \in Req, Admit(r)
  PROVE  SlotsInv'
  BY LargerSet, AdmissionAssumption DEF AdmissionAssumption, SlotsInv, AdmissionTypeOK, Admit

LEMMA TakeThreadSlots ==
  ASSUME SlotsInv, NEW r \in Req, TakeThread(r)
  PROVE  SlotsInv'
  BY LargerSet, AdmissionAssumption DEF AdmissionAssumption, SlotsInv, AdmissionTypeOK, TakeThread

LEMMA LeaveThreadSlots ==
  ASSUME SlotsInv, NEW r \in Req, LeaveThread(r)
  PROVE  SlotsInv'
  BY SmallerSet, AdmissionAssumption DEF AdmissionAssumption, SlotsInv, AdmissionTypeOK, LeaveThread

LEMMA ConnectSlots ==
  ASSUME SlotsInv, NEW r \in Req, Connect(r)
  PROVE  SlotsInv'
  BY DEF SlotsInv, AdmissionTypeOK, Connect

LEMMA LeaveSlots ==
  ASSUME SlotsInv, NEW r \in Req, Leave(r)
  PROVE  SlotsInv'
  BY SmallerSet, AdmissionAssumption DEF AdmissionAssumption, SlotsInv, AdmissionTypeOK, Leave

LEMMA VanishSlots ==
  ASSUME SlotsInv, NEW r \in Req, Vanish(r)
  PROVE  SlotsInv'
  BY SmallerSet, AdmissionAssumption DEF AdmissionAssumption, SlotsInv, AdmissionTypeOK, Vanish

LEMMA SocketSlots ==
  ASSUME SlotsInv, SocketOpens \/ SocketCloses
  PROVE  SlotsInv'
  BY DEF SlotsInv, AdmissionTypeOK, SocketOpens, SocketCloses

LEMMA SameSlots ==
  ASSUME SlotsInv, UNCHANGED admissionVars
  PROVE  SlotsInv'
  BY DEF SlotsInv, AdmissionTypeOK, admissionVars

\* Connections are the slots' at most; one that is still wanted is one less,
\* and the WebSocket takes the one the pool has on top.
LEMMA SlotsSuffice == SlotsInv => NobodyWaitsForConnection
<1> SUFFICES ASSUME SlotsInv PROVE NobodyWaitsForConnection
  OBVIOUS
<1> USE AdmissionAssumption DEF AdmissionAssumption
<1>1. IsFiniteSet(conns) /\ Cardinality(conns) <= MaxConcurrent /\ Cardinality(conns) \in Nat
  BY FS_Subset, FS_CardinalityType DEF SlotsInv, AdmissionTypeOK
<1>2. ASSUME NEW r \in threads \ conns PROVE InUse < Pool
  <2>1. conns \in SUBSET (slots \ {r}) /\ r \in slots
    BY <1>2 DEF SlotsInv, AdmissionTypeOK
  <2>2. IsFiniteSet(slots \ {r}) /\ Cardinality(slots \ {r}) = Cardinality(slots) - 1
    BY <2>1, FS_RemoveElement DEF SlotsInv
  <2>3. Cardinality(conns) <= Cardinality(slots) - 1
    BY <2>1, <2>2, FS_Subset
  <2>4. Cardinality(slots) \in Nat
    BY FS_CardinalityType DEF SlotsInv
  <2> QED
    BY <1>1, <2>3, <2>4 DEF InUse, SlotsInv
<1>3. ~socket => InUse < Pool
  BY <1>1 DEF InUse, SlotsInv
<1> QED
  BY <1>2, <1>3 DEF NobodyWaitsForConnection

----------------------------------------------------------------------------
(* The way of a request.                                                   *)

\* The protocol's own state is typed.
FlowTypeOK ==
  /\ IdemTypeOK
  /\ asks \in [Req -> [key: Key \cup {NoKey}, payload: Payload]]
  /\ at \in [Req -> Label] /\ answer \in [Req -> Answer]
  /\ holder \in [Payload -> Req \cup {NoKey}]
  /\ lapsed \subseteq Key

\* A stored result is a booking of that key and that body; so is one that was
\* replayed.
ResultsInv ==
  /\ \A k \in Key : idem[k].state = "done" =>
       /\ idem[k].booking \in Req
       /\ KeyOf(idem[k].booking) = k /\ PayloadOf(idem[k].booking) = idem[k].fp
  /\ ReplayIsOwnBooking

FlowInv == FlowTypeOK /\ ResultsInv

\* Only a request with a key looks its key up.
LookUpInv == \A r \in Req : at[r] = "get" => KeyOf(r) # NoKey

RequestInv == SlotsInv /\ FlowInv /\ LookUpInv

LEMMA FlowInit == RequestInit => FlowInv
  BY RequestAssumption
  DEF RequestAssumption, RequestInit, FlowInv, FlowTypeOK, ResultsInv, ReplayIsOwnBooking, IdemInit, IdemTypeOK,
      Entry, NoEntry, Label, Answer, Kind, Unanswered

\* One answer and one label are written at a time.
LEMMA Said ==
  ASSUME FlowTypeOK, NEW r \in Req, NEW kind \in Kind, NEW b \in Req \cup {NoKey}, Say(r, kind, b)
  PROVE  /\ answer' \in [Req -> Answer]
         /\ answer'[r] = [kind |-> kind, booking |-> b]
         /\ \A q \in Req \ {r} : answer'[q] = answer[q]
  BY DEF FlowTypeOK, Say, Answer

LEMMA Gone ==
  ASSUME FlowTypeOK, NEW r \in Req, NEW from, NEW to \in Label, Go(r, from, to)
  PROVE  at' \in [Req -> Label]
  BY DEF FlowTypeOK, Go, Label

\* An answer that is not a replay disturbs no result.
LEMMA AnswersElse ==
  ASSUME FlowInv, asks' = asks, NEW r \in Req, NEW kind \in Kind \ {"replayed"},
         NEW b \in Req \cup {NoKey}, Say(r, kind, b)
  PROVE  ReplayIsOwnBooking'
<1>1. \A q \in Req \ {r} : answer'[q] = answer[q]
  BY Said DEF FlowInv
<1>2. answer'[r].kind # "replayed"
  <2>1. kind \in Kind
    OBVIOUS
  <2>2. answer'[r] = [kind |-> kind, booking |-> b]
    BY <2>1, Said DEF FlowInv
  <2> QED
    BY <2>2
<1>3. \A q \in Req : answer'[q].kind = "replayed" => answer'[q] = answer[q]
  BY <1>1, <1>2
<1>4. ReplayIsOwnBooking
  BY DEF FlowInv, ResultsInv
<1> QED
  BY <1>3, <1>4 DEF ReplayIsOwnBooking, KeyOf, PayloadOf

LEMMA AnswersSame ==
  ASSUME FlowInv, asks' = asks, answer' = answer
  PROVE  ReplayIsOwnBooking' /\ answer' \in [Req -> Answer]
  BY DEF ReplayIsOwnBooking, FlowInv, FlowTypeOK, ResultsInv, KeyOf, PayloadOf

\* An entry that is claimed or dropped, or one that stays.
LEMMA EntriesElse ==
  ASSUME FlowInv, asks' = asks, NEW k \in Key, NEW e \in Entry, e.state # "done",
         idem' = [idem EXCEPT ![k] = e]
  PROVE  /\ IdemTypeOK'
         /\ \A l \in Key : idem'[l].state = "done" =>
              /\ idem'[l].booking \in Req
              /\ (KeyOf(idem[l].booking) = l)' /\ (PayloadOf(idem[l].booking) = idem[l].fp)'
<1>1. idem \in [Key -> Entry]
  BY DEF FlowInv, FlowTypeOK, IdemTypeOK
<1>2. idem'[k] = e /\ \A l \in Key \ {k} : idem'[l] = idem[l]
  BY <1>1
<1>3. IdemTypeOK'
  BY <1>1 DEF IdemTypeOK
<1> QED
  BY <1>2, <1>3 DEF FlowInv, ResultsInv, KeyOf, PayloadOf

LEMMA EntriesSame ==
  ASSUME FlowInv, asks' = asks, idem' = idem
  PROVE  /\ IdemTypeOK'
         /\ \A l \in Key : idem'[l].state = "done" =>
              /\ idem'[l].booking \in Req
              /\ (KeyOf(idem[l].booking) = l)' /\ (PayloadOf(idem[l].booking) = idem[l].fp)'
  BY DEF FlowInv, FlowTypeOK, ResultsInv, IdemTypeOK, KeyOf, PayloadOf

\* A lookup never hands out anything but the answers it is meant to.
LEMMA LookUpAnswers ==
  ASSUME FlowInv, NEW k \in Key, NEW p \in Payload
  PROVE  /\ Verdict(k, p) \in {"new", "processing", "replayed", "mismatch"}
         /\ idem[k].booking \in Req \cup {NoKey}
         /\ Verdict(k, p) = "replayed" => idem[k].state = "done" /\ idem[k].fp = p
<1>1. idem[k] \in Entry
  BY DEF FlowInv, FlowTypeOK, IdemTypeOK
<1>2. idem[k].booking \in Req \cup {NoKey} /\ idem[k].state \in {"none", "processing", "done"}
  BY <1>1, RequestAssumption DEF RequestAssumption, Entry
<1>3. CASE idem[k].state = "none"
  BY <1>2, <1>3 DEF Verdict
<1>4. CASE idem[k].state # "none" /\ idem[k].fp # p
  BY <1>2, <1>4 DEF Verdict
<1>5. CASE idem[k].state = "processing" /\ idem[k].fp = p
  BY <1>2, <1>5 DEF Verdict
<1>6. CASE idem[k].state = "done" /\ idem[k].fp = p
  BY <1>2, <1>6 DEF Verdict
<1> QED
  BY <1>2, <1>3, <1>4, <1>5, <1>6

\* The requests themselves, and what the properties take from them.
LEMMA Asked ==
  ASSUME FlowInv, NEW r \in Req
  PROVE  KeyOf(r) \in Key \cup {NoKey} /\ PayloadOf(r) \in Payload
  BY DEF FlowInv, FlowTypeOK, KeyOf, PayloadOf

\* What is left to show for a step once entries and answers are dealt with.
Results ==
  \A k \in Key : idem[k].state = "done" =>
    /\ idem[k].booking \in Req
    /\ KeyOf(idem[k].booking) = k /\ PayloadOf(idem[k].booking) = idem[k].fp

LEMMA FlowParts ==
  ASSUME FlowInv, asks' = asks, IdemTypeOK', Results', ReplayIsOwnBooking',
         at' \in [Req -> Label], answer' \in [Req -> Answer],
         holder' \in [Payload -> Req \cup {NoKey}], lapsed' \subseteq Key
  PROVE  FlowInv'
  BY DEF FlowInv, FlowTypeOK, ResultsInv, Results

\* Steps that leave the entries and the answers alone.
LEMMA QuietStep ==
  ASSUME FlowInv, asks' = asks, idem' = idem, answer' = answer,
         at' \in [Req -> Label],
         holder' \in [Payload -> Req \cup {NoKey}], lapsed' \subseteq Key
  PROVE  FlowInv'
<1>1. IdemTypeOK' /\ Results'
  BY EntriesSame DEF Results
<1> QED
  BY <1>1, AnswersSame, FlowParts

\* Steps that answer, but replay nothing, and leave the entries alone.
LEMMA AnsweringStep ==
  ASSUME FlowInv, asks' = asks, idem' = idem,
         NEW r \in Req, NEW kind \in Kind \ {"replayed"}, NEW b \in Req \cup {NoKey},
         Say(r, kind, b), at' \in [Req -> Label],
         holder' \in [Payload -> Req \cup {NoKey}], lapsed' \subseteq Key
  PROVE  FlowInv'
<1>1. IdemTypeOK' /\ Results'
  BY EntriesSame DEF Results
<1>2. FlowTypeOK /\ kind \in Kind
  BY DEF FlowInv
<1>3. answer' \in [Req -> Answer]
  BY <1>2, Said
<1> QED
  BY <1>1, <1>3, AnswersElse, FlowParts

\* Steps that claim or drop an entry and answer nothing.
LEMMA ClaimingStep ==
  ASSUME FlowInv, asks' = asks, answer' = answer,
         NEW k \in Key, NEW e \in Entry, e.state # "done", idem' = [idem EXCEPT ![k] = e],
         at' \in [Req -> Label], holder' = holder, lapsed' \subseteq Key
  PROVE  FlowInv'
<1>1. IdemTypeOK' /\ Results'
  BY EntriesElse DEF Results
<1>2. holder' \in [Payload -> Req \cup {NoKey}]
  BY DEF FlowInv, FlowTypeOK
<1> QED
  BY <1>1, <1>2, AnswersSame, FlowParts

LEMMA SameFlow ==
  ASSUME FlowInv
  PROVE  /\ at \in [Req -> Label]
         /\ holder \in [Payload -> Req \cup {NoKey}]
         /\ lapsed \subseteq Key
         /\ FlowTypeOK
  BY DEF FlowInv, FlowTypeOK

LEMMA Entries ==
  ASSUME NEW p \in Payload
  PROVE  /\ Processing(p) \in Entry /\ Processing(p).state # "done"
         /\ NoEntry \in Entry /\ NoEntry.state # "done"
  BY DEF Processing, NoEntry, Entry

----------------------------------------------------------------------------
(* The steps.                                                              *)

LEMMA ArriveFlow ==
  ASSUME FlowInv, asks' = asks, NEW r \in Req, Arrive(r)
  PROVE  FlowInv'
<1>1. at' \in [Req -> Label]
  BY SameFlow, Gone DEF Arrive, Label
<1> QED
  BY <1>1, SameFlow, QuietStep DEF Arrive

LEMMA AuthDoneFlow ==
  ASSUME FlowInv, asks' = asks, NEW r \in Req, AuthDone(r)
  PROVE  FlowInv'
<1>1. at' \in [Req -> Label]
  BY SameFlow, Gone DEF AuthDone, Label
<1> QED
  BY <1>1, SameFlow, QuietStep DEF AuthDone

LEMMA LimitDoneFlow ==
  ASSUME FlowInv, asks' = asks, NEW r \in Req, LimitDone(r)
  PROVE  FlowInv'
<1>1. at' \in [Req -> Label]
  BY SameFlow, Gone DEF LimitDone, Label
<1>2. idem' = idem /\ holder' = holder /\ lapsed' = lapsed
  BY DEF LimitDone
<1>3. CASE answer' = answer
  BY <1>1, <1>2, <1>3, SameFlow, QuietStep
<1>4. CASE Say(r, "limited", NoKey)
  BY <1>1, <1>2, <1>4, SameFlow, AnsweringStep DEF Kind
<1> QED
  BY <1>3, <1>4 DEF LimitDone

LEMMA BeginFlow ==
  ASSUME FlowInv, asks' = asks, NEW r \in Req, Begin(r)
  PROVE  FlowInv'
<1>1. at' \in [Req -> Label]
  BY SameFlow, Gone DEF Begin, Label
<1>2. answer' = answer /\ holder' = holder /\ lapsed' = lapsed
  BY DEF Begin
<1>3. CASE idem' = idem
  BY <1>1, <1>2, <1>3, SameFlow, QuietStep
<1>4. CASE KeyOf(r) # NoKey /\ ClaimKey(KeyOf(r), PayloadOf(r))
  <2>1. KeyOf(r) \in Key /\ PayloadOf(r) \in Payload
    BY <1>4, Asked
  <2>2. idem' = [idem EXCEPT ![KeyOf(r)] = Processing(PayloadOf(r))]
    BY <1>4 DEF ClaimKey
  <2> QED
    BY <1>1, <1>2, <2>1, <2>2, Entries, SameFlow, ClaimingStep
<1> QED
  BY <1>3, <1>4 DEF Begin

LEMMA LookUpFlow ==
  ASSUME FlowInv, asks' = asks, NEW r \in Req, LookUp(r), KeyOf(r) \in Key
  PROVE  FlowInv'
<1> DEFINE k == KeyOf(r)
           verdict == Verdict(k, PayloadOf(r))
           b == IF verdict = "replayed" THEN idem[k].booking ELSE NoKey
<1>0. k \in Key /\ PayloadOf(r) \in Payload
  BY Asked
<1>1. at' \in [Req -> Label]
  BY SameFlow, Gone DEF LookUp, Label
<1>2. idem' = idem /\ holder' = holder
  BY DEF LookUp
<1>3. \/ answer' = answer /\ lapsed' = lapsed \cup {k}
      \/ verdict # "new" /\ Say(r, verdict, b) /\ lapsed' = lapsed
  BY DEF LookUp, KeyOf
<1>4. /\ verdict \in {"new", "processing", "replayed", "mismatch"}
      /\ b \in Req \cup {NoKey}
      /\ verdict = "replayed" => idem[k].state = "done" /\ idem[k].fp = PayloadOf(r)
  BY <1>0, LookUpAnswers
<1>5. IdemTypeOK' /\ Results'
  BY <1>2, EntriesSame DEF Results
<1>6. CASE answer' = answer /\ lapsed' = lapsed \cup {k}
  BY <1>0, <1>1, <1>2, <1>6, SameFlow, QuietStep
<1>7. CASE Say(r, verdict, b) /\ lapsed' = lapsed /\ verdict # "new"
  <2>1. verdict \in Kind
    BY <1>4, <1>7 DEF Kind
  <2>2. /\ answer' \in [Req -> Answer]
        /\ answer'[r] = [kind |-> verdict, booking |-> b]
        /\ \A q \in Req \ {r} : answer'[q] = answer[q]
    BY <1>4, <1>7, <2>1, SameFlow, Said
  <2>3. CASE verdict # "replayed"
    BY <1>1, <1>2, <1>4, <1>7, <2>1, <2>3, SameFlow, AnsweringStep
  <2>4. CASE verdict = "replayed"
    <3>1. answer'[r].booking = idem[k].booking
      BY <2>2, <2>4
    <3>2. /\ idem[k].booking \in Req
          /\ KeyOf(idem[k].booking) = k /\ PayloadOf(idem[k].booking) = PayloadOf(r)
      BY <1>0, <1>4, <2>4 DEF FlowInv, ResultsInv
    <3>3. ReplayIsOwnBooking
      BY DEF FlowInv, ResultsInv
    <3>4. ReplayIsOwnBooking'
      BY <2>2, <3>1, <3>2, <3>3 DEF ReplayIsOwnBooking, KeyOf, PayloadOf
    <3> QED
      BY <1>1, <1>2, <1>5, <1>7, <2>2, <3>4, SameFlow, FlowParts
  <2> QED
    BY <2>3, <2>4
<1> QED
  BY <1>3, <1>6, <1>7

LEMMA PerformFlow ==
  ASSUME FlowInv, asks' = asks, NEW r \in Req, Perform(r)
  PROVE  FlowInv'
<1>0. PayloadOf(r) \in Payload
  BY Asked
<1>1. at' \in [Req -> Label]
  BY SameFlow, Gone DEF Perform, Label
<1>2. idem' = idem /\ lapsed' = lapsed
  BY DEF Perform
<1>3. holder' \in [Payload -> Req \cup {NoKey}] /\ holder[PayloadOf(r)] \in Req \cup {NoKey}
  BY <1>0, SameFlow DEF Perform
<1>4. \E kind \in Kind \ {"replayed"}, b \in Req \cup {NoKey} : Say(r, kind, b)
  BY <1>3 DEF Perform, Kind
<1> QED
  BY <1>1, <1>2, <1>3, <1>4, SameFlow, AnsweringStep

LEMMA FailLateFlow ==
  ASSUME FlowInv, asks' = asks, NEW r \in Req, FailLate(r)
  PROVE  FlowInv'
<1>1. at' \in [Req -> Label]
  BY SameFlow, Gone DEF FailLate, Label
<1>2. idem' = idem /\ holder' = holder /\ lapsed' \subseteq Key /\ Say(r, "error", NoKey)
  BY Asked, SameFlow DEF FailLate
<1> QED
  BY <1>1, <1>2, SameFlow, AnsweringStep DEF Kind

\* The result is stored under the request's own key with its own body.
LEMMA StoreFlow ==
  ASSUME FlowInv, asks' = asks, NEW r \in Req, Store(r)
  PROVE  FlowInv'
<1> DEFINE k == KeyOf(r)
           e == Stored(PayloadOf(r), r)
<1>1. at' \in [Req -> Label]
  BY SameFlow, Gone DEF Store, Label
<1>2. answer' = answer /\ holder' = holder /\ lapsed' = lapsed
  BY DEF Store
<1>3. CASE k = NoKey
  <2>1. idem' = idem
    BY <1>3 DEF Store, Complete
  <2> QED
    BY <1>1, <1>2, <2>1, SameFlow, QuietStep
<1>4. CASE k # NoKey
  <2>1. k \in Key /\ PayloadOf(r) \in Payload
    BY <1>4, Asked
  <2>2. idem' = [idem EXCEPT ![k] = e]
    BY <1>4 DEF Store, Complete
  <2>3. idem \in [Key -> Entry]
    BY DEF FlowInv, FlowTypeOK, IdemTypeOK
  <2>4. e \in Entry /\ e.booking = r /\ e.fp = PayloadOf(r)
    BY <2>1, RequestAssumption DEF RequestAssumption, Stored, Entry
  <2>5. IdemTypeOK'
    BY <2>2, <2>3, <2>4 DEF IdemTypeOK
  <2>6. idem'[k] = e /\ \A l \in Key \ {k} : idem'[l] = idem[l]
    BY <2>1, <2>2, <2>3
  <2> HIDE DEF e
  <2>7. Results'
    BY <2>4, <2>6 DEF Results, FlowInv, ResultsInv, KeyOf, PayloadOf
  <2> QED
    BY <1>1, <1>2, <2>5, <2>7, AnswersSame, SameFlow, FlowParts
<1> QED
  BY <1>3, <1>4

LEMMA GiveUpFlow ==
  ASSUME FlowInv, asks' = asks, NEW r \in Req, GiveUp(r)
  PROVE  FlowInv'
<1>1. at' \in [Req -> Label]
  BY SameFlow, Gone DEF GiveUp, Label
<1>2. answer' = answer /\ holder' = holder /\ lapsed' = lapsed
  BY DEF GiveUp
<1>3. CASE KeyOf(r) = NoKey
  <2>1. idem' = idem
    BY <1>3 DEF GiveUp, Abort
  <2> QED
    BY <1>1, <1>2, <2>1, SameFlow, QuietStep
<1>4. CASE KeyOf(r) # NoKey
  <2>1. KeyOf(r) \in Key /\ PayloadOf(r) \in Payload
    BY <1>4, Asked
  <2>2. idem' = [idem EXCEPT ![KeyOf(r)] = NoEntry]
    BY <1>4 DEF GiveUp, Abort
  <2> QED
    BY <1>1, <1>2, <2>1, <2>2, Entries, SameFlow, ClaimingStep
<1> QED
  BY <1>3, <1>4

LEMMA RespondFlow ==
  ASSUME FlowInv, asks' = asks, NEW r \in Req, Respond(r)
  PROVE  FlowInv'
<1>1. at' \in [Req -> Label]
  BY SameFlow, Gone DEF Respond, Label
<1> QED
  BY <1>1, SameFlow, QuietStep DEF Respond

LEMMA DieFlow ==
  ASSUME FlowInv, asks' = asks, NEW r \in Req, Die(r)
  PROVE  FlowInv'
<1>1. at' \in [Req -> Label]
  BY SameFlow DEF Die, Label
<1>2. idem' = idem /\ holder' = holder /\ lapsed' \subseteq Key /\ Say(r, "lost", NoKey)
  BY Asked, SameFlow DEF Die
<1> QED
  BY <1>1, <1>2, SameFlow, AnsweringStep DEF Kind

LEMMA ExpireFlow ==
  ASSUME FlowInv, asks' = asks, NEW k \in Key, Expire(k)
  PROVE  FlowInv'
<1>1. idem' = [idem EXCEPT ![k] = NoEntry] /\ answer' = answer /\ at' = at /\ holder' = holder
  BY DEF Expire
<1>2. lapsed' \subseteq Key
  BY SameFlow DEF Expire
<1>3. NoEntry \in Entry /\ NoEntry.state # "done"
  BY DEF NoEntry, Entry
<1> QED
  BY <1>1, <1>2, <1>3, SameFlow, ClaimingStep

LEMMA CancelBookingFlow ==
  ASSUME FlowInv, asks' = asks, NEW p \in Payload, CancelBooking(p)
  PROVE  FlowInv'
<1>1. holder' \in [Payload -> Req \cup {NoKey}]
  BY SameFlow DEF CancelBooking
<1> QED
  BY <1>1, SameFlow, QuietStep DEF CancelBooking

----------------------------------------------------------------------------
(* All steps together.                                                     *)

LEMMA LookUpKept ==
  ASSUME FlowInv, LookUpInv, RequestNext
  PROVE  LookUpInv'
<1>1. asks' = asks /\ at \in [Req -> Label]
  BY SameFlow DEF RequestNext
<1>2. CASE at' = at
  BY <1>1, <1>2 DEF LookUpInv, KeyOf
<1>3. CASE \E r \in Req : Begin(r)
  <2>1. PICK r \in Req : Begin(r)
    BY <1>3
  <2>2. \E to \in Label : at' = [at EXCEPT ![r] = to] /\ (to = "get" => KeyOf(r) # NoKey)
    BY <2>1 DEF Begin, Go, Label
  <2> QED
    BY <1>1, <2>2 DEF LookUpInv, KeyOf
<1>4. CASE \E r \in Req, to \in Label \ {"get"} : at' = [at EXCEPT ![r] = to]
  BY <1>1, <1>4 DEF LookUpInv, KeyOf
<1>5. ASSUME NEW r \in Req, Proceed(r) \/ Die(r), ~Begin(r)
      PROVE  at' = at \/ \E to \in Label \ {"get"} : at' = [at EXCEPT ![r] = to]
  <2>1. CASE Arrive(r) BY <2>1 DEF Arrive, Go, Label
  <2>2. CASE GetThread(r) BY <2>2 DEF GetThread
  <2>3. CASE Query(r) BY <2>3 DEF Query
  <2>4. CASE AuthDone(r) BY <2>4 DEF AuthDone, Go, Label
  <2>5. CASE LimitDone(r) BY <2>5 DEF LimitDone, Go, Label
  <2>6. CASE LookUp(r) BY <2>6 DEF LookUp, Go, Label
  <2>7. CASE Perform(r) BY <2>7 DEF Perform, Go, Label
  <2>8. CASE FailLate(r) BY <2>8 DEF FailLate, Go, Label
  <2>9. CASE Store(r) BY <2>9 DEF Store, Go, Label
  <2>10. CASE GiveUp(r) BY <2>10 DEF GiveUp, Go, Label
  <2>11. CASE Respond(r) BY <2>11 DEF Respond, Go, Label
  <2>12. CASE Die(r) BY <2>12 DEF Die, Label
  <2> QED
    BY <1>5, <2>1, <2>2, <2>3, <2>4, <2>5, <2>6, <2>7, <2>8, <2>9, <2>10, <2>11, <2>12 DEF Proceed
<1>6. CASE \E r \in Req : Proceed(r) \/ Die(r)
  BY <1>2, <1>3, <1>4, <1>5, <1>6
<1>7. CASE (\E k \in Key : Expire(k)) \/ (\E p \in Payload : CancelBooking(p)) \/ Socket
  BY <1>2, <1>7 DEF Expire, CancelBooking, Socket
<1> QED
  BY <1>6, <1>7 DEF RequestNext

LEMMA RequestSlots ==
  ASSUME SlotsInv, NEW r \in Req, Proceed(r) \/ Die(r)
  PROVE  SlotsInv'
<1>1. CASE Arrive(r) BY <1>1, AdmitSlots DEF Arrive
<1>2. CASE GetThread(r) BY <1>2, TakeThreadSlots DEF GetThread
<1>3. CASE Query(r) BY <1>3, ConnectSlots DEF Query
<1>4. CASE AuthDone(r) BY <1>4, LeaveThreadSlots DEF AuthDone
<1>5. CASE LimitDone(r) BY <1>5, LeaveThreadSlots DEF LimitDone
<1>6. CASE Begin(r) BY <1>6, SameSlots DEF Begin
<1>7. CASE LookUp(r) BY <1>7, SameSlots, LeaveThreadSlots DEF LookUp
<1>8. CASE Perform(r) BY <1>8, SameSlots DEF Perform
<1>9. CASE FailLate(r) BY <1>9, SameSlots DEF FailLate
<1>10. CASE Store(r) BY <1>10, LeaveThreadSlots DEF Store
<1>11. CASE GiveUp(r) BY <1>11, LeaveThreadSlots DEF GiveUp
<1>12. CASE Respond(r) BY <1>12, LeaveSlots DEF Respond
<1>13. CASE Die(r) BY <1>13, VanishSlots DEF Die
<1> QED
  BY <1>1, <1>2, <1>3, <1>4, <1>5, <1>6, <1>7, <1>8, <1>9, <1>10, <1>11, <1>12, <1>13 DEF Proceed

LEMMA RequestFlow ==
  ASSUME FlowInv, LookUpInv, asks' = asks, NEW r \in Req, Proceed(r) \/ Die(r)
  PROVE  FlowInv'
<1>1. CASE Arrive(r) BY <1>1, ArriveFlow
<1>2. CASE GetThread(r) BY <1>2, SameFlow, QuietStep DEF GetThread
<1>3. CASE Query(r) BY <1>3, SameFlow, QuietStep DEF Query
<1>4. CASE AuthDone(r) BY <1>4, AuthDoneFlow
<1>5. CASE LimitDone(r) BY <1>5, LimitDoneFlow
<1>6. CASE Begin(r) BY <1>6, BeginFlow
<1>7. CASE LookUp(r)
  <2>1. KeyOf(r) \in Key
    BY <1>7, Asked DEF LookUp, LookUpInv
  <2> QED
    BY <1>7, <2>1, LookUpFlow
<1>8. CASE Perform(r) BY <1>8, PerformFlow
<1>9. CASE FailLate(r) BY <1>9, FailLateFlow
<1>10. CASE Store(r) BY <1>10, StoreFlow
<1>11. CASE GiveUp(r) BY <1>11, GiveUpFlow
<1>12. CASE Respond(r) BY <1>12, RespondFlow
<1>13. CASE Die(r) BY <1>13, DieFlow
<1> QED
  BY <1>1, <1>2, <1>3, <1>4, <1>5, <1>6, <1>7, <1>8, <1>9, <1>10, <1>11, <1>12, <1>13 DEF Proceed

LEMMA RequestStep == RequestInv /\ [RequestNext]_vars => RequestInv'
<1> SUFFICES ASSUME RequestInv, [RequestNext]_vars PROVE RequestInv'
  OBVIOUS
<1> USE DEF RequestInv
<1>1. CASE UNCHANGED vars
  <2>1. SlotsInv' /\ asks' = asks
    BY <1>1, SameSlots DEF vars
  <2>2. FlowInv'
    BY <1>1, SameFlow, QuietStep DEF vars
  <2>3. LookUpInv'
    BY <1>1 DEF vars, LookUpInv, KeyOf
  <2> QED
    BY <2>1, <2>2, <2>3
<1>2. CASE RequestNext
  <2>0. asks' = asks /\ LookUpInv'
    BY <1>2, LookUpKept DEF RequestNext
  <2>1. CASE \E r \in Req : Proceed(r) \/ Die(r)
    BY <2>0, <2>1, RequestSlots, RequestFlow
  <2>2. CASE \E k \in Key : Expire(k)
    <3>1. SlotsInv'
      BY <2>2, SameSlots DEF Expire
    <3> QED
      BY <2>0, <2>2, <3>1, ExpireFlow
  <2>3. CASE \E p \in Payload : CancelBooking(p)
    <3>1. SlotsInv'
      BY <2>3, SameSlots DEF CancelBooking
    <3> QED
      BY <2>0, <2>3, <3>1, CancelBookingFlow
  <2>4. CASE Socket
    <3>1. SlotsInv'
      BY <2>4, SocketSlots DEF Socket
    <3>2. FlowInv'
      BY <2>0, <2>4, SameFlow, QuietStep DEF Socket
    <3> QED
      BY <2>0, <3>1, <3>2
  <2> QED
    BY <1>2, <2>1, <2>2, <2>3, <2>4 DEF RequestNext
<1> QED
  BY <1>1, <1>2

LEMMA RequestAlways == RequestSpec => []RequestInv
<1>1. RequestInit => RequestInv
  <2>1. RequestInit => LookUpInv
    BY DEF RequestInit, LookUpInv
  <2> QED
    BY <2>1, SlotsInit, FlowInit DEF RequestInit, RequestInv
<1> QED
  BY <1>1, RequestStep, PTL DEF RequestSpec

----------------------------------------------------------------------------
(* The claim of a key.                                                     *)

\* A request that holds the claim of k, and the bookings made under it.
Claims(r, k) == KeyOf(r) = k /\ at[r] \in {"work", "store", "abort"}
BookedUnder(p, k) == holder[p] \in Req /\ KeyOf(holder[p]) = k

\* While a key protects, one request at most claims it, its entry says so, and
\* a booking made under it is about to be stored or has been.
ClaimInv(k) ==
  /\ \A r \in Req : Claims(r, k) => idem[k].state = "processing"
  /\ \A r, q \in Req : Claims(r, k) /\ Claims(q, k) => r = q
  /\ \A p \in Payload : BookedUnder(p, k) =>
       at[holder[p]] = "store" \/ idem[k].state = "done"
  /\ \A r \in Req : answer[r].kind = "taken" /\ KeyOf(r) = k => KeyOf(answer[r].booking) # k

ProtectedInv == RequestInv /\ \A k \in Key \ lapsed : ClaimInv(k)

\* A step of no concern to k: nobody claims it anew or has stored a booking,
\* no seat is sold, and nobody is told that one is.
Aside(k) ==
  /\ asks' = asks /\ idem'[k] = idem[k]
  /\ \A p \in Payload : holder'[p] \in {holder[p], NoKey}
  /\ \A r \in Req : Claims(r, k)' => Claims(r, k)
  /\ \A r \in Req : KeyOf(r) = k /\ at[r] = "store" => at'[r] = "store"
  /\ \A r \in Req : answer'[r].kind = "taken" => answer'[r] = answer[r]

LEMMA AsideKeeps ==
  ASSUME NEW k \in Key, ClaimInv(k), Aside(k)
  PROVE  ClaimInv(k)'
<1>0. NoKey \notin Req
  BY RequestAssumption DEF RequestAssumption
<1> QED
  BY <1>0 DEF ClaimInv, Aside, Claims, BookedUnder, KeyOf

\* Steps that leave entries and bookings alone and answer nothing about a
\* taken seat, and that move one request, or none.
LEMMA MovesAside ==
  ASSUME FlowInv, asks' = asks, idem' = idem, NEW k \in Key, NEW r \in Req,
         \A p \in Payload : holder'[p] \in {holder[p], NoKey},
         NEW to, at' = [at EXCEPT ![r] = to],
         KeyOf(r) # k \/ to \notin {"work", "store", "abort"} \/ Claims(r, k),
         KeyOf(r) # k \/ at[r] # "store",
         answer' = answer \/ \E kind, b : kind # "taken" /\ Say(r, kind, b)
  PROVE  Aside(k)
<1>1. at \in [Req -> Label] /\ answer \in [Req -> Answer]
  BY DEF FlowInv, FlowTypeOK
<1>2. at'[r] = to /\ \A q \in Req \ {r} : at'[q] = at[q]
  BY <1>1
<1>3. \A q \in Req : answer'[q].kind = "taken" => answer'[q] = answer[q]
  BY <1>1 DEF Say
<1> QED
  BY <1>2, <1>3 DEF Aside, Claims, KeyOf

LEMMA BeginClaims ==
  ASSUME FlowInv, asks' = asks, NEW k \in Key, ClaimInv(k), NEW r \in Req, Begin(r)
  PROVE  ClaimInv(k)'
<1>0. /\ at \in [Req -> Label] /\ idem \in [Key -> Entry] /\ at[r] = "begin"
      /\ answer' = answer /\ holder' = holder /\ NoKey \notin Key
  BY RequestAssumption DEF RequestAssumption, FlowInv, FlowTypeOK, IdemTypeOK, Begin, Go
<1>1. CASE \/ KeyOf(r) = NoKey /\ Go(r, "begin", "work") /\ UNCHANGED idem
           \/ Go(r, "begin", "get") /\ UNCHANGED idem
  <2>1. PICK to \in Label : /\ idem' = idem
                            /\ at' = [at EXCEPT ![r] = to]
                            /\ KeyOf(r) = NoKey \/ to = "get"
    BY <1>1 DEF Go, Label
  <2>2. Aside(k)
    BY <1>0, <2>1, MovesAside
  <2> QED
    BY <2>2, AsideKeeps
<1>2. CASE KeyOf(r) # NoKey /\ ClaimKey(KeyOf(r), PayloadOf(r)) /\ Go(r, "begin", "work")
  <2>1. KeyOf(r) \in Key
    BY <1>2, Asked
  <2>2. at'[r] = "work" /\ \A q \in Req \ {r} : at'[q] = at[q]
    BY <1>0, <1>2 DEF Go
  <2>3. CASE KeyOf(r) = k
    <3>1. idem[k].state = "none" /\ idem'[k].state = "processing"
      BY <1>0, <1>2, <2>3 DEF ClaimKey, Processing
    <3>2. \A q \in Req : ~Claims(q, k)
      BY <3>1 DEF ClaimInv
    <3>3. \A p \in Payload : ~BookedUnder(p, k)
      BY <3>1, <3>2 DEF ClaimInv, Claims, BookedUnder
    <3> QED
      BY <1>0, <2>2, <3>1, <3>2, <3>3 DEF ClaimInv, Claims, BookedUnder, KeyOf
  <2>4. CASE KeyOf(r) # k
    <3>1. idem'[k] = idem[k]
      BY <1>0, <1>2, <2>1, <2>4 DEF ClaimKey
    <3>2. Aside(k)
      BY <1>0, <2>2, <2>4, <3>1 DEF Aside, Claims, KeyOf
    <3> QED
      BY <3>2, AsideKeeps
  <2> QED
    BY <2>3, <2>4
<1> QED
  BY <1>1, <1>2 DEF Begin

LEMMA PerformClaims ==
  ASSUME FlowInv, asks' = asks, NEW k \in Key, ClaimInv(k), NEW r \in Req, Perform(r)
  PROVE  ClaimInv(k)'
<1>0. /\ at \in [Req -> Label] /\ idem' = idem /\ at[r] = "work" /\ FlowTypeOK
      /\ holder \in [Payload -> Req \cup {NoKey}] /\ PayloadOf(r) \in Payload
      /\ NoKey \notin Req
  BY Asked, RequestAssumption DEF RequestAssumption, FlowInv, FlowTypeOK, Perform, Go
<1>1. PICK p \in Payload : p = PayloadOf(r)
  BY <1>0
<1>2. KeyOf(r) = k => /\ idem[k].state = "processing" /\ Claims(r, k)
                      /\ \A t \in Payload : ~BookedUnder(t, k)
  BY <1>0 DEF ClaimInv, Claims, BookedUnder
<1>3. CASE /\ holder' = [holder EXCEPT ![p] = r] /\ at' = [at EXCEPT ![r] = "store"]
           /\ Say(r, "created", r)
  <2>1. /\ at'[r] = "store" /\ \A q \in Req \ {r} : at'[q] = at[q]
        /\ holder'[p] = r /\ \A t \in Payload \ {p} : holder'[t] = holder[t]
    BY <1>0, <1>3
  <2>2. \A q \in Req : answer'[q].kind = "taken" => answer'[q] = answer[q]
    BY <1>0, <1>3 DEF Say, FlowTypeOK
  <2>3. \A q \in Req : Claims(q, k)' <=> Claims(q, k)
    BY <1>0, <2>1 DEF Claims, KeyOf
  <2>4. \A t \in Payload : BookedUnder(t, k)' => at'[holder'[t]] = "store" \/ idem'[k].state = "done"
    BY <1>0, <2>1 DEF ClaimInv, BookedUnder, KeyOf
  <2> QED
    BY <1>0, <2>2, <2>3, <2>4 DEF ClaimInv, KeyOf
<1>4. CASE /\ holder[p] # NoKey /\ holder' = holder /\ at' = [at EXCEPT ![r] = "abort"]
           /\ Say(r, "taken", holder[p])
  <2>1. at'[r] = "abort" /\ \A q \in Req \ {r} : at'[q] = at[q]
    BY <1>0, <1>4
  <2>2. /\ answer'[r].booking = holder[p] /\ holder[p] \in Req
        /\ \A q \in Req \ {r} : answer'[q] = answer[q]
    <3>1. holder[p] \in Req
      BY <1>0, <1>4
    <3>2. answer \in [Req -> Answer]
      BY <1>0 DEF FlowTypeOK
    <3> QED
      BY <1>4, <3>1, <3>2 DEF Say
  <2>3. \A q \in Req : answer'[q].kind = "taken" /\ KeyOf(q) = k => KeyOf(answer'[q].booking) # k
    BY <1>2, <2>2 DEF ClaimInv, BookedUnder
  <2>4. \A q \in Req : Claims(q, k)' <=> Claims(q, k)
    BY <1>0, <2>1 DEF Claims, KeyOf
  <2>5. \A t \in Payload : BookedUnder(t, k)' => at'[holder'[t]] = "store" \/ idem'[k].state = "done"
    BY <1>0, <1>4, <2>1 DEF ClaimInv, BookedUnder, KeyOf
  <2> QED
    BY <1>0, <2>3, <2>4, <2>5 DEF ClaimInv, KeyOf
<1>5. CASE at' = [at EXCEPT ![r] = "abort"] /\ Say(r, "error", NoKey) /\ holder' = holder
  <2>1. KeyOf(r) # k \/ Claims(r, k)
    BY <1>0 DEF Claims
  <2>2. Aside(k)
    BY <1>0, <1>5, <2>1, MovesAside
  <2> QED
    BY <2>2, AsideKeeps
<1> QED
  BY <1>1, <1>3, <1>4, <1>5 DEF Perform, Go

\* The claim ends: with a result, or with nothing to show for it.
LEMMA EndsClaim ==
  ASSUME FlowInv, asks' = asks, NEW k \in Key, ClaimInv(k), NEW r \in Req, Store(r) \/ GiveUp(r)
  PROVE  ClaimInv(k)'
<1>0. /\ at \in [Req -> Label] /\ idem \in [Key -> Entry] /\ at[r] \in {"store", "abort"}
      /\ answer' = answer /\ holder' = holder /\ at' = [at EXCEPT ![r] = "answered"]
      /\ NoKey \notin Key
  BY RequestAssumption DEF RequestAssumption, FlowInv, FlowTypeOK, IdemTypeOK, Store, GiveUp, Go
<1>1. at'[r] = "answered" /\ \A q \in Req \ {r} : at'[q] = at[q]
  BY <1>0
<1>2. CASE KeyOf(r) # k
  <2>1. idem'[k] = idem[k]
    BY <1>0, <1>2, Asked DEF Store, GiveUp, Complete, Abort
  <2>2. Aside(k)
    BY <1>0, <1>1, <1>2, <2>1 DEF Aside, Claims, KeyOf
  <2> QED
    BY <2>2, AsideKeeps
<1>3. CASE KeyOf(r) = k
  <2>1. Claims(r, k) /\ \A q \in Req : Claims(q, k) => q = r
    BY <1>0, <1>3 DEF ClaimInv, Claims
  <2>2. \A q \in Req : ~Claims(q, k)'
    BY <1>1, <2>1 DEF Claims, KeyOf
  <2>3. CASE Store(r)
    <3>1. idem'[k].state = "done"
      BY <1>0, <1>3, <2>3 DEF Store, Complete, Stored
    <3> QED
      BY <1>0, <2>2, <3>1 DEF ClaimInv, BookedUnder, KeyOf
  <2>4. CASE GiveUp(r)
    <3>1. at[r] = "abort" /\ idem[k].state = "processing"
      BY <2>1, <2>4 DEF GiveUp, Go, ClaimInv
    <3>2. \A p \in Payload : ~BookedUnder(p, k)
      BY <2>1, <3>1 DEF ClaimInv, Claims, BookedUnder
    <3> QED
      BY <1>0, <2>2, <3>2 DEF ClaimInv, BookedUnder, KeyOf
  <2> QED
    BY <2>3, <2>4
<1> QED
  BY <1>2, <1>3

LEMMA ExpiryClaims ==
  ASSUME FlowInv, asks' = asks, NEW k \in Key \ lapsed', ClaimInv(k), NEW l \in Key, Expire(l)
  PROVE  ClaimInv(k)'
<1>0. /\ idem \in [Key -> Entry] /\ at' = at /\ answer' = answer /\ holder' = holder
      /\ idem[l].state = "processing" /\ idem' = [idem EXCEPT ![l] = NoEntry]
  BY DEF FlowInv, FlowTypeOK, IdemTypeOK, Expire
<1>1. CASE l # k
  <2>1. Aside(k)
    BY <1>0, <1>1 DEF Aside, Claims, KeyOf
  <2> QED
    BY <2>1, AsideKeeps
<1>2. CASE l = k
  <2>1. ~Working(k)
    BY <1>2 DEF Expire
  <2>2. \A r \in Req : ~Claims(r, k)
    BY <2>1 DEF Working, Claims
  <2>3. \A p \in Payload : ~BookedUnder(p, k)
    BY <1>0, <1>2, <2>2 DEF ClaimInv, Claims, BookedUnder
  <2> QED
    BY <1>0, <2>2, <2>3 DEF ClaimInv, Claims, BookedUnder, KeyOf
<1> QED
  BY <1>1, <1>2

\* The other steps are of no concern to a key that still protects.
LEMMA OthersAside ==
  ASSUME RequestInv, asks' = asks, NEW k \in Key \ lapsed', NEW r \in Req,
         \/ Arrive(r) \/ GetThread(r) \/ Query(r) \/ AuthDone(r) \/ LimitDone(r) \/ LookUp(r)
         \/ FailLate(r) \/ Respond(r) \/ Die(r)
  PROVE  Aside(k)
<1>0. FlowInv /\ at \in [Req -> Label] /\ (at[r] = "get" => KeyOf(r) \in Key)
  BY Asked DEF RequestInv, FlowInv, FlowTypeOK, LookUpInv
<1>1. at = [at EXCEPT ![r] = at[r]]
  BY <1>0
<1>2. CASE GetThread(r) \/ Query(r)
  BY <1>0, <1>2 DEF GetThread, Query, Aside, Claims, KeyOf
<1>3. CASE Arrive(r) \/ AuthDone(r) \/ LimitDone(r) \/ Respond(r)
  <2>1. \E to : /\ at' = [at EXCEPT ![r] = to] /\ to \notin {"work", "store", "abort"}
                /\ at[r] # "store" /\ idem' = idem /\ holder' = holder
                /\ answer' = answer \/ Say(r, "limited", NoKey)
    BY <1>3 DEF Arrive, AuthDone, LimitDone, Respond, Go
  <2> QED
    BY <1>0, <2>1, MovesAside
<1>4. CASE LookUp(r)
  <2>1. at[r] = "get" /\ idem' = idem /\ holder' = holder
    BY <1>4 DEF LookUp
  <2>2. Verdict(KeyOf(r), PayloadOf(r)) # "taken"
    BY <1>0, <2>1, Asked, LookUpAnswers
  <2>3. \/ KeyOf(r) # k /\ at' = [at EXCEPT ![r] = "work"] /\ answer' = answer
        \/ /\ at' = [at EXCEPT ![r] = "answered"]
           /\ \E kind, b : kind # "taken" /\ Say(r, kind, b)
    BY <1>4, <2>2 DEF LookUp, Go, KeyOf
  <2>4. CASE KeyOf(r) # k /\ at' = [at EXCEPT ![r] = "work"] /\ answer' = answer
    BY <1>0, <2>1, <2>4, MovesAside
  <2>5. CASE /\ at' = [at EXCEPT ![r] = "answered"]
             /\ \E kind, b : kind # "taken" /\ Say(r, kind, b)
    BY <1>0, <2>1, <2>5, MovesAside
  <2> QED
    BY <2>3, <2>4, <2>5
<1>5. CASE FailLate(r)
  <2>1. KeyOf(r) # k
    BY <1>5, RequestAssumption DEF RequestAssumption, FailLate
  <2> QED
    BY <1>0, <1>5, <2>1, MovesAside DEF FailLate, Go
<1>6. CASE Die(r)
  <2>1. KeyOf(r) # k \/ at[r] # "store"
    BY <1>6, RequestAssumption DEF RequestAssumption, Die
  <2> QED
    BY <1>0, <1>6, <2>1, MovesAside DEF Die
<1> QED
  BY <1>2, <1>3, <1>4, <1>5, <1>6

LEMMA ProtectedStep == ProtectedInv /\ [RequestNext]_vars => ProtectedInv'
<1> SUFFICES ASSUME ProtectedInv, [RequestNext]_vars, NEW k \in Key \ lapsed'
             PROVE  ClaimInv(k)'
  BY RequestStep DEF ProtectedInv
<1>0. RequestInv /\ FlowInv /\ asks' = asks
  BY DEF ProtectedInv, RequestInv, RequestNext, vars
<1>1. k \in Key /\ k \notin lapsed
  BY DEF RequestNext, Proceed, Arrive, GetThread, Query, AuthDone, LimitDone, Begin, LookUp,
         Perform, FailLate, Store, GiveUp, Respond, Die, Expire, CancelBooking, Socket, vars
<1>2. ClaimInv(k)
  BY <1>1 DEF ProtectedInv
<1>3. CASE UNCHANGED vars
  BY <1>2, <1>3 DEF vars, ClaimInv, Claims, BookedUnder, KeyOf
<1>4. ASSUME NEW r \in Req, Proceed(r) \/ Die(r)
      PROVE  ClaimInv(k)'
  BY <1>0, <1>1, <1>2, <1>4, BeginClaims, PerformClaims, EndsClaim, OthersAside, AsideKeeps
  DEF Proceed
<1>5. CASE \E l \in Key : Expire(l)
  BY <1>0, <1>2, <1>5, ExpiryClaims
<1>6. ASSUME NEW p \in Payload, CancelBooking(p)
      PROVE  ClaimInv(k)'
  <2>1. Aside(k)
    BY <1>0, <1>6 DEF CancelBooking, Aside, Claims, KeyOf, FlowInv, FlowTypeOK
  <2> QED
    BY <1>1, <1>2, <2>1, AsideKeeps
<1>7. CASE Socket
  BY <1>0, <1>2, <1>7 DEF Socket, ClaimInv, Claims, BookedUnder, KeyOf
<1> QED
  BY <1>3, <1>4, <1>5, <1>6, <1>7 DEF RequestNext

LEMMA ProtectedAlways == RequestSpec => []ProtectedInv
<1>1. RequestInit => \A k \in Key : ClaimInv(k)
  BY RequestAssumption
  DEF RequestAssumption, RequestInit, ClaimInv, Claims, BookedUnder, Unanswered
<1>2. RequestInit => RequestInv
  BY SlotsInit, FlowInit DEF RequestInit, RequestInv, LookUpInv
<1>3. RequestInit => ProtectedInv
  BY <1>1, <1>2 DEF ProtectedInv
<1> QED
  BY <1>3, ProtectedStep, PTL DEF RequestSpec

----------------------------------------------------------------------------
(* The theorems.                                                           *)

\* Slots, threads, connections, entries, answers and bookings stay within
\* their types (limit_concurrency, create_booking).
THEOREM TypeCorrectness == RequestSpec => []RequestTypeOK
<1>1. RequestInv => RequestTypeOK
  BY DEF RequestInv, SlotsInv, FlowInv, FlowTypeOK, RequestTypeOK
<1> QED
  BY <1>1, RequestAlways, PTL

\* With fewer slots than connections the pool makes nobody wait, whatever
\* requests die, take long or open sockets (main.py, database.py).
THEOREM ConnectionsSuffice == RequestSpec => []NobodyWaitsForConnection
<1>1. RequestInv => NobodyWaitsForConnection
  BY SlotsSuffice DEF RequestInv
<1> QED
  BY <1>1, RequestAlways, PTL

\* A replayed response is of a booking of the same key and body, although
\* entries expire, vanish and are dropped by anybody (idempotency.py).
THEOREM ReplaysAreOwn == RequestSpec => []ReplayIsOwnBooking
<1>1. RequestInv => ReplayIsOwnBooking
  BY DEF RequestInv, FlowInv, ResultsInv
<1> QED
  BY <1>1, RequestAlways, PTL

\* A retry never gets a conflict because of the booking its own key has made,
\* unless a placeholder expired or vanished under a request or one failed
\* between its commit and its result: the claim is held by one request, until
\* its result is there (create_booking).
THEOREM RetriesMeetNoConflict == RequestSpec => []NoConflictWithItself
<1>1. ProtectedInv => NoConflictWithItself
  BY DEF ProtectedInv, ClaimInv, NoConflictWithItself
<1> QED
  BY <1>1, ProtectedAlways, PTL
=============================================================================

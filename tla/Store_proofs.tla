---------------------------- MODULE Store_proofs ----------------------------
(***************************************************************************)
(* Proofs about Store, for any sets of keys, messages and times: the types *)
(* of its variables, the agreement of payments, outbox and parked messages *)
(* that TLC checks on the instance of MCStore, and that Store implements   *)
(* Lifecycle.                                                              *)
(***************************************************************************)
EXTENDS Store, SequenceTheorems, TLAPS

-----------------------------------------------------------------------------
(* What events do to an aggregate.                                         *)

\* Payment::apply keeps the aggregate well typed.
LEMMA AfterType ==
  ASSUME NEW p \in PaymentRecord, NEW e \in PaymentEvent
  PROVE  After(p, e) \in PaymentRecord
<1>1. After(p, Validated) \in PaymentRecord
  <2>1. After(p, Validated) =
         [p EXCEPT !.state = "VALIDATED"]
    BY DEF After, Validated
  <2>2. QED
    BY <2>1 DEF PaymentRecord, PaymentState
<1>2. After(p, Submitted) \in PaymentRecord
  <2>1. After(p, Submitted) =
         [p EXCEPT !.state = "SUBMITTED"]
    BY DEF After, Submitted
  <2>2. QED
    BY <2>1 DEF PaymentRecord, PaymentState
<1>3. After(p, TimeoutDeclared) \in PaymentRecord
  <2>1. After(p, TimeoutDeclared) =
         [p EXCEPT !.state = "TIMEOUT_UNRESOLVED"]
    BY DEF After, TimeoutDeclared
  <2>2. QED
    BY <2>1 DEF PaymentRecord, PaymentState
<1>4. ASSUME NEW o \in RiskOutcome, NEW t \in Time
      PROVE  After(p, RiskChecked(o, t)) \in PaymentRecord
  <2>1. AfterRisk(o) \in PaymentState
    BY DEF AfterRisk, RiskOutcome, PaymentState
  <2>2. (IF o = "hold" THEN t ELSE p.heldAt) \in Time \cup {None}
    BY DEF PaymentRecord
  <2>3. After(p, RiskChecked(o, t)) =
         [p EXCEPT !.state  = AfterRisk(o), !.risk = o,
                   !.heldAt = IF o = "hold" THEN t ELSE @]
    BY DEF After, RiskChecked
  <2>4. QED
    BY <2>1, <2>2, <2>3 DEF PaymentRecord
<1>5. ASSUME NEW d \in Digest
      PROVE  After(p, HoldParked(d)) \in PaymentRecord
  <2>1. After(p, HoldParked(d)) =
         [p EXCEPT !.digest = d]
    BY DEF After, HoldParked
  <2>2. QED
    BY <2>1 DEF PaymentRecord, PaymentState
<1>6. ASSUME NEW d \in Digest, NEW b \in Actor, NEW t \in Time
      PROVE  After(p, HoldReleased(d, b, t)) \in PaymentRecord
  <2>1. [action |-> "released", by |-> b, at |-> t] \in HoldResolution
    BY DEF HoldResolution, HoldAction
  <2>2. "SUBMITTED" \in PaymentState
    BY DEF PaymentState
  <2>3. After(p, HoldReleased(d, b, t)) =
         [p EXCEPT !.state = "SUBMITTED",
                   !.resolution = [action |-> "released", by |-> b, at |-> t]]
    BY DEF After, HoldReleased
  <2>4. QED
    BY <2>1, <2>2, <2>3 DEF PaymentRecord
<1>7. ASSUME NEW b \in Actor, NEW t \in Time
      PROVE  After(p, HoldCancelled(b, t)) \in PaymentRecord
  <2>1. [action |-> "cancelled", by |-> b, at |-> t] \in HoldResolution
    BY DEF HoldResolution, HoldAction
  <2>2. "CANCELLED" \in PaymentState
    BY DEF PaymentState
  <2>3. After(p, HoldCancelled(b, t)) =
         [p EXCEPT !.state = "CANCELLED", !.digest = None,
                   !.resolution = [action |-> "cancelled", by |-> b, at |-> t]]
    BY DEF After, HoldCancelled
  <2>4. QED
    BY <2>1, <2>2, <2>3 DEF PaymentRecord
<1>8. ASSUME NEW t \in Time
      PROVE  After(p, Published(t)) \in PaymentRecord
  <2>1. "ACK_PENDING" \in PaymentState
    BY DEF PaymentState
  <2>2. After(p, Published(t)) =
         [p EXCEPT !.state = "ACK_PENDING", !.publishedAt = t]
    BY DEF After, Published
  <2>3. QED
    BY <2>1, <2>2 DEF PaymentRecord
<1>9. ASSUME NEW s \in AdviceStatus
      PROVE  After(p, AdviceReceived(s)) \in PaymentRecord
  <2>1. AfterAdvice(p.state, s) \in PaymentState
    BY DEF AfterAdvice, PaymentState, PaymentRecord
  <2>2. After(p, AdviceReceived(s)) =
         [p EXCEPT !.state = AfterAdvice(@, s), !.advice = s]
    BY DEF After, AdviceReceived
  <2>3. QED
    BY <2>1, <2>2 DEF PaymentRecord
<1>10. ASSUME NEW t \in Time
      PROVE  After(p, QuerySent(t)) \in PaymentRecord
  <2>1. p.queries + 1 \in Nat
    BY DEF PaymentRecord
  <2>2. After(p, QuerySent(t)) =
         [p EXCEPT !.queries = @ + 1, !.lastQueryAt = t]
    BY DEF After, QuerySent
  <2>3. QED
    BY <2>1, <2>2 DEF PaymentRecord
<1>11. QED
  BY <1>1, <1>2, <1>3, <1>4, <1>5, <1>6, <1>7, <1>8, <1>9, <1>10 DEF PaymentEvent

\* What a plain append may do: it neither enters nor leaves HELD, neither clears
\* a payment nor takes a clearance back, and never judges a payment as held.
LEMMA AppendedEffect ==
  ASSUME NEW p \in PaymentRecord, NEW e \in AppendedEvent, Legal(p, e)
  PROVE  LET q == After(p, e)
         IN  /\ e \in PaymentEvent
             /\ p.state # "HELD" /\ q.state # "HELD"
             /\ p.state \in Cleared <=> q.state \in Cleared
             /\ q.state \in {"CREATED", "VALIDATED"}
                  => p.state \in {"CREATED", "VALIDATED"}
             /\ q.risk \in {p.risk, "allow", "refuse"}
             /\ p.state \in Cleared => q.risk = p.risk
             /\ q.digest = p.digest
             /\ q.resolution = p.resolution
<1> DEFINE q == After(p, e)
<1>0. e \in PaymentEvent
  BY StoreAssumption DEF AppendedEvent, PaymentEvent, RiskOutcome
<1>1. CASE e = Validated
  <2>1. p.state = "CREATED"
    BY <1>1 DEF Legal, Validated
  <2>2. q = [p EXCEPT !.state = "VALIDATED"]
    BY <1>1 DEF After, Validated
  <2>3. QED
    BY <1>0, <2>1, <2>2 DEF PaymentRecord, Cleared
<1>2. CASE e = TimeoutDeclared
  <2>1. p.state = "ACK_PENDING"
    BY <1>2 DEF Legal, TimeoutDeclared
  <2>2. q = [p EXCEPT !.state = "TIMEOUT_UNRESOLVED"]
    BY <1>2 DEF After, TimeoutDeclared
  <2>3. QED
    BY <1>0, <2>1, <2>2 DEF PaymentRecord, Cleared
<1>3. CASE \E o \in {"allow", "refuse"}, t \in Time : e = RiskChecked(o, t)
  <2>1. PICK o \in {"allow", "refuse"}, t \in Time : e = RiskChecked(o, t)
    BY <1>3
  <2>2. p.state = "VALIDATED"
    BY <2>1 DEF Legal, RiskChecked, RiskCheckable
  <2>3. q = [p EXCEPT !.state  = AfterRisk(o), !.risk = o,
                      !.heldAt = IF o = "hold" THEN t ELSE @]
    BY <2>1 DEF After, RiskChecked
  <2>4. AfterRisk(o) \in {"VALIDATED", "REFUSED"}
    BY DEF AfterRisk
  <2>5. /\ q.state \in {"VALIDATED", "REFUSED"}
        /\ q.risk \in {"allow", "refuse"}
        /\ q.digest = p.digest
        /\ q.resolution = p.resolution
    BY <2>3, <2>4 DEF PaymentRecord
  <2>6. QED
    BY <1>0, <2>2, <2>5 DEF Cleared
<1>4. CASE \E t \in Time : e = Published(t)
  <2>1. PICK t \in Time : e = Published(t)
    BY <1>4
  <2>2. p.state = "SUBMITTED"
    BY <2>1 DEF Legal, Published
  <2>3. q = [p EXCEPT !.state = "ACK_PENDING", !.publishedAt = t]
    BY <2>1 DEF After, Published
  <2>4. QED
    BY <1>0, <2>2, <2>3 DEF PaymentRecord, Cleared
<1>5. CASE \E s \in Advice : e = AdviceReceived(s)
  <2>1. PICK s \in Advice : e = AdviceReceived(s)
    BY <1>5
  <2>2. p.state \in {"ACK_PENDING", "TIMEOUT_UNRESOLVED", "SETTLED"}
    BY <2>1 DEF Legal, AdviceReceived
  <2>3. q = [p EXCEPT !.state = AfterAdvice(@, s), !.advice = s]
    BY <2>1 DEF After, AdviceReceived
  <2>4. AfterAdvice(p.state, s) \in {p.state, "SETTLED", "REJECTED"}
    BY DEF AfterAdvice
  <2>5. /\ q.state \in {p.state, "SETTLED", "REJECTED"}
        /\ q.risk = p.risk
        /\ q.digest = p.digest
        /\ q.resolution = p.resolution
    BY <2>3, <2>4 DEF PaymentRecord
  <2>6. QED
    BY <1>0, <2>2, <2>5 DEF Cleared
<1>6. CASE \E t \in Time : e = QuerySent(t)
  <2>1. PICK t \in Time : e = QuerySent(t)
    BY <1>6
  <2>2. p.state = "TIMEOUT_UNRESOLVED"
    BY <2>1 DEF Legal, QuerySent, Queryable
  <2>3. q = [p EXCEPT !.queries = @ + 1, !.lastQueryAt = t]
    BY <2>1 DEF After, QuerySent
  <2>4. QED
    BY <1>0, <2>2, <2>3 DEF PaymentRecord, Cleared
<1>7. QED
  BY <1>1, <1>2, <1>3, <1>4, <1>5, <1>6 DEF AppendedEvent

\* Submitted, from a payment the risk check let pass.
LEMMA SubmittedEffect ==
  ASSUME NEW p \in PaymentRecord, Legal(p, Submitted)
  PROVE  LET q == After(p, Submitted)
         IN  /\ q \in PaymentRecord
             /\ p.state = "VALIDATED" /\ q.state = "SUBMITTED"
             /\ q.risk = p.risk /\ q.digest = p.digest
<1>1. After(p, Submitted) \in PaymentRecord
  BY AfterType DEF PaymentEvent
<1>2. p.state = "VALIDATED"
  BY DEF Legal, Submitted
<1>3. After(p, Submitted) = [p EXCEPT !.state = "SUBMITTED"]
  BY DEF After, Submitted
<1>4. QED
  BY <1>1, <1>2, <1>3 DEF PaymentRecord

\* The hold and its digest, the two events of park.
LEMMA ParkedEffect ==
  ASSUME NEW p \in PaymentRecord, NEW m \in Message, NEW t \in Time,
         Legal(p, RiskChecked("hold", t))
  PROVE  LET q == After(After(p, RiskChecked("hold", t)), HoldParked(Sha256[m]))
         IN  /\ q \in PaymentRecord
             /\ p.state = "VALIDATED" /\ q.state = "HELD"
             /\ q.digest = Sha256[m]
<1> DEFINE h == After(p, RiskChecked("hold", t))
           q == After(h, HoldParked(Sha256[m]))
<1>1. h \in PaymentRecord
  BY AfterType DEF PaymentEvent, RiskOutcome
<1>2. p.state = "VALIDATED" /\ h.state = "HELD"
  BY DEF Legal, RiskChecked, RiskCheckable, After, AfterRisk, PaymentRecord
<1> HIDE DEF h
<1>3. q \in PaymentRecord
  BY <1>1, AfterType DEF PaymentEvent, Digest
<1>4. q = [h EXCEPT !.digest = Sha256[m]]
  BY DEF After, HoldParked
<1>5. q.state = h.state /\ q.digest = Sha256[m]
  BY <1>1, <1>4 DEF PaymentRecord
<1>6. QED
  BY <1>2, <1>3, <1>5 DEF h

\* A release: the payment was HELD under that digest, and keeps it on record.
LEMMA ReleasedEffect ==
  ASSUME NEW p \in PaymentRecord, NEW d \in Digest, NEW b \in Actor, NEW t \in Time,
         Legal(p, HoldReleased(d, b, t))
  PROVE  LET q == After(p, HoldReleased(d, b, t))
         IN  /\ q \in PaymentRecord
             /\ p.state = "HELD" /\ q.state = "SUBMITTED"
             /\ p.digest = d /\ q.digest = d
             /\ q.resolution # None /\ q.resolution.action = "released"
<1> DEFINE q == After(p, HoldReleased(d, b, t))
           r == [action |-> "released", by |-> b, at |-> t]
<1>1. q \in PaymentRecord
  BY AfterType DEF PaymentEvent
<1>2. p.state = "HELD" /\ p.digest = d
  BY DEF Legal, HoldReleased, Releasable
<1>3. q = [p EXCEPT !.state = "SUBMITTED", !.resolution = r]
  BY DEF After, HoldReleased
<1>4. r # None
  BY PaymentAssumption DEF HoldResolution, HoldAction
<1>5. r.action = "released"
  OBVIOUS
<1> HIDE DEF r
<1>6. q.state = "SUBMITTED" /\ q.digest = p.digest /\ q.resolution = r
  BY <1>3 DEF PaymentRecord
<1>7. QED
  BY <1>1, <1>2, <1>4, <1>5, <1>6

\* A cancellation, which erases the digest.
LEMMA CancelledEffect ==
  ASSUME NEW p \in PaymentRecord, NEW b \in Actor, NEW t \in Time,
         Legal(p, HoldCancelled(b, t))
  PROVE  LET q == After(p, HoldCancelled(b, t))
         IN  q \in PaymentRecord /\ p.state = "HELD" /\ q.state = "CANCELLED"
<1> DEFINE q == After(p, HoldCancelled(b, t))
<1>1. q \in PaymentRecord
  BY AfterType DEF PaymentEvent
<1>2. p.state = "HELD"
  BY DEF Legal, HoldCancelled
<1>3. q.state = "CANCELLED"
  BY DEF After, HoldCancelled, PaymentRecord
<1>4. QED
  BY <1>1, <1>2, <1>3

\* A new payment is CREATED and unjudged.
LEMMA NewPaymentEffect ==
  ASSUME NEW m \in Message
  PROVE  /\ NewPayment(m) \in PaymentRecord
         /\ NewPayment(m).state = "CREATED"
         /\ NewPayment(m).risk # "hold"
BY PaymentAssumption DEF NewPayment, PaymentRecord, PaymentState, RiskOutcome

\* A payment on record is never None, so Known tells what it should.
LEMMA RecordIsKnown == \A p \in PaymentRecord : p # None
BY PaymentAssumption

-----------------------------------------------------------------------------
(* What operations do to the outbox.                                       *)

\* Enqueue adds one entry at the end and leaves the others where they are.
LEMMA EnqueueEffect ==
  ASSUME NEW k \in Key, NEW m \in Message,
         outbox \in Seq(OutboxEntry), Enqueue(k, m)
  PROVE  LET new == Len(outbox) + 1
         IN  /\ outbox' \in Seq(OutboxEntry)
             /\ DOMAIN outbox' = DOMAIN outbox \cup {new}
             /\ new \notin DOMAIN outbox
             /\ \A i \in DOMAIN outbox : outbox'[i] = outbox[i]
             /\ outbox'[new] = [key |-> k, message |-> m, published |-> FALSE]
<1> DEFINE entry == [key |-> k, message |-> m, published |-> FALSE]
<1>1. entry \in OutboxEntry
  BY DEF OutboxEntry
<1>2. outbox' = Append(outbox, entry)
  BY DEF Enqueue
<1> HIDE DEF entry
<1>3. /\ outbox' \in Seq(OutboxEntry)
      /\ Len(outbox') = Len(outbox) + 1
      /\ \A i \in 1..Len(outbox) : outbox'[i] = outbox[i]
      /\ outbox'[Len(outbox) + 1] = entry
  BY <1>1, <1>2, AppendProperties
<1>4. /\ Len(outbox) \in Nat
      /\ DOMAIN outbox = 1..Len(outbox)
      /\ DOMAIN outbox' = 1..Len(outbox')
  BY <1>3, LenProperties
<1>5. QED
  BY <1>3, <1>4 DEF entry

\* mark_published changes neither the key nor the message of an entry.
LEMMA MarkEffect ==
  ASSUME outbox \in Seq(OutboxEntry), NEW i \in DOMAIN outbox, MarkPublished(i)
  PROVE  /\ outbox' \in Seq(OutboxEntry)
         /\ DOMAIN outbox' = DOMAIN outbox
         /\ \A j \in DOMAIN outbox : /\ outbox'[j].key = outbox[j].key
                                     /\ outbox'[j].message = outbox[j].message
<1> DEFINE entry == [outbox[i] EXCEPT !.published = TRUE]
<1>1. DOMAIN outbox = 1..Len(outbox) /\ i \in 1..Len(outbox)
  BY LenProperties
<1>2. outbox[i] \in OutboxEntry
  BY <1>1, ElementOfSeq
<1>3. /\ entry \in OutboxEntry
      /\ entry.key = outbox[i].key /\ entry.message = outbox[i].message
  BY <1>2 DEF OutboxEntry
<1>4. outbox' = [outbox EXCEPT ![i] = entry]
  BY DEF MarkPublished
<1> HIDE DEF entry
<1>5. /\ outbox' \in Seq(OutboxEntry)
      /\ Len(outbox') = Len(outbox)
      /\ \A j \in 1..Len(outbox) : outbox'[j] = IF j = i THEN entry ELSE outbox[j]
  BY <1>1, <1>3, <1>4, ExceptSeq
<1>6. DOMAIN outbox' = 1..Len(outbox')
  BY <1>5, LenProperties
<1>7. QED
  BY <1>1, <1>3, <1>5, <1>6

-----------------------------------------------------------------------------
(* Type correctness.                                                       *)

\* Every call of the store, and marking an entry, keeps the types.
LEMMA StoreTypeStep == StoreTypeOK /\ [StoreNext]_storeVars => StoreTypeOK'
<1> SUFFICES ASSUME StoreTypeOK, [StoreNext]_storeVars
             PROVE  StoreTypeOK'
  OBVIOUS
<1> USE DEF StoreTypeOK
<1>1. ASSUME NEW k \in Key, NEW m \in Message, Create(k, m)
      PROVE  StoreTypeOK'
  BY <1>1, NewPaymentEffect DEF Create
<1>2. ASSUME NEW k \in Key, NEW m \in Message, SubmitToOutbox(k, m)
      PROVE  StoreTypeOK'
  <2>1. payments[k] \in PaymentRecord
    BY <1>2 DEF SubmitToOutbox, Accepts, Known
  <2>2. After(payments[k], Submitted) \in PaymentRecord
    BY <2>1, AfterType DEF PaymentEvent
  <2>3. outbox' \in Seq(OutboxEntry)
    BY <1>2, EnqueueEffect DEF SubmitToOutbox
  <2>4. QED
    BY <1>2, <2>2, <2>3 DEF SubmitToOutbox
<1>3. ASSUME NEW k \in Key, NEW e \in AppendedEvent, AppendCall(k, e)
      PROVE  StoreTypeOK'
  <2>1. payments[k] \in PaymentRecord /\ Legal(payments[k], e)
    BY <1>3 DEF AppendCall, AppendEvent, Accepts, Known
  <2>2. After(payments[k], e) \in PaymentRecord
    BY <2>1, AfterType, AppendedEffect
  <2>3. QED
    BY <1>3, <2>2 DEF AppendCall, AppendEvent
<1>4. ASSUME NEW k \in Key, NEW m \in Message, NEW t \in Time, Park(k, m, t)
      PROVE  StoreTypeOK'
  <2> DEFINE q == After(After(payments[k], RiskChecked("hold", t)), HoldParked(Sha256[m]))
  <2>1. payments[k] \in PaymentRecord /\ Legal(payments[k], RiskChecked("hold", t))
    BY <1>4 DEF Park, Accepts, Known
  <2>2. q \in PaymentRecord
    BY <2>1, ParkedEffect
  <2>3. /\ payments' = [payments EXCEPT ![k] = q]
        /\ parked' = [parked EXCEPT ![k] = m]
        /\ outbox' = outbox
    BY <1>4 DEF Park
  <2> HIDE DEF q
  <2>4. QED
    BY <2>2, <2>3
<1>5. ASSUME NEW k \in Key, NEW d \in Digest, NEW b \in Actor, NEW t \in Time,
             ReleaseParked(k, d, b, t)
      PROVE  StoreTypeOK'
  <2>1. /\ payments[k] \in PaymentRecord
        /\ Legal(payments[k], HoldReleased(d, b, t))
        /\ parked[k] \in Message
    BY <1>5 DEF ReleaseParked, Accepts, Known
  <2>2. After(payments[k], HoldReleased(d, b, t)) \in PaymentRecord
    BY <2>1, ReleasedEffect
  <2>3. outbox' \in Seq(OutboxEntry)
    BY <1>5, <2>1, EnqueueEffect DEF ReleaseParked
  <2>4. QED
    BY <1>5, <2>2, <2>3 DEF ReleaseParked
<1>6. ASSUME NEW k \in Key, NEW b \in Actor, NEW t \in Time, DiscardParked(k, b, t)
      PROVE  StoreTypeOK'
  <2>1. payments[k] \in PaymentRecord /\ Legal(payments[k], HoldCancelled(b, t))
    BY <1>6 DEF DiscardParked, Accepts, Known
  <2>2. After(payments[k], HoldCancelled(b, t)) \in PaymentRecord
    BY <2>1, CancelledEffect
  <2>3. QED
    BY <1>6, <2>2 DEF DiscardParked
<1>7. ASSUME NEW i \in DOMAIN outbox, MarkPublished(i)
      PROVE  StoreTypeOK'
  BY <1>7, MarkEffect DEF MarkPublished
<1>8. CASE UNCHANGED storeVars
  BY <1>8 DEF storeVars
<1>9. QED
  BY <1>1, <1>2, <1>3, <1>4, <1>5, <1>6, <1>7, <1>8 DEF StoreNext, StoreCall

\* The store's variables keep their types, whatever it is asked.
THEOREM StoreTypeCorrect == StoreSpec => []StoreTypeOK
<1>1. StoreInit => StoreTypeOK
  BY EmptySeq DEF StoreInit, StoreTypeOK
<1>2. QED
  BY <1>1, StoreTypeStep, PTL DEF StoreSpec

-----------------------------------------------------------------------------
(* Agreement of payments, outbox and parked messages.                      *)

\* A payment that still waits for its risk check has not been judged as held:
\* HeldSendsOnlyWhatWasParked alone does not survive SubmitToOutbox.
UnjudgedIsNotHeld ==
  \A k \in Key :
    StateOf(k) \in {"CREATED", "VALIDATED"} => payments[k].risk # "hold"

Agreement ==
  /\ ParkedExactlyWhileHeld
  /\ QueuedExactlyWhenCleared
  /\ OneEntryPerPayment
  /\ HeldSendsOnlyWhatWasParked
  /\ UnjudgedIsNotHeld

StoreInv == StoreTypeOK /\ Agreement

\* A step that gives k the aggregate q leaves the other payments alone.
LEMMA OnePaymentMoves ==
  ASSUME StoreTypeOK, NEW k \in Key, NEW q \in PaymentRecord,
         payments' = [payments EXCEPT ![k] = q]
  PROVE  /\ payments'[k] = q /\ StateOf(k)' = q.state
         /\ \A j \in Key \ {k} : payments'[j] = payments[j] /\ StateOf(j)' = StateOf(j)
BY RecordIsKnown DEF StoreTypeOK, StateOf, Known

\* The keys and states of what the store holds.
LEMMA StoredKinds ==
  ASSUME StoreTypeOK
  PROVE  /\ \A i \in DOMAIN outbox : outbox[i].key \in Key /\ outbox[i].message \in Message
         /\ \A k \in Key : Known(k) => /\ payments[k] \in PaymentRecord
                                      /\ StateOf(k) = payments[k].state
         /\ \A k \in Key : ~Known(k) => StateOf(k) = "ABSENT"
<1>1. \A i \in DOMAIN outbox : outbox[i] \in OutboxEntry
  BY ElementOfSeq, LenProperties DEF StoreTypeOK
<1>2. QED
  BY <1>1 DEF StoreTypeOK, OutboxEntry, StateOf, Known

\* A call that moves one payment that is not queued, and leaves the outbox.
LEMMA UnqueuedMoves ==
  ASSUME StoreInv, NEW k \in Key, NEW q \in PaymentRecord,
         StateOf(k) \notin Cleared, q.state \notin Cleared,
         q.state \in {"CREATED", "VALIDATED"} => q.risk # "hold",
         payments' = [payments EXCEPT ![k] = q], outbox' = outbox,
         \A j \in Key \ {k} : parked'[j] = parked[j],
         IF q.state = "HELD" THEN parked'[k] # None /\ q.digest = Sha256[parked'[k]]
                             ELSE parked'[k] = None
  PROVE  Agreement'
<1> USE DEF StoreInv, Agreement
<1>1. /\ payments'[k] = q /\ StateOf(k)' = q.state
      /\ \A j \in Key \ {k} : payments'[j] = payments[j] /\ StateOf(j)' = StateOf(j)
  BY OnePaymentMoves
<1>2. \A j \in Key : InOutbox(j)' <=> InOutbox(j)
  BY DEF InOutbox
<1>3. \A i \in DOMAIN outbox : outbox[i].key \in Key \ {k}
  BY StoredKinds DEF QueuedExactlyWhenCleared, InOutbox
<1>4. ParkedExactlyWhileHeld'
  BY <1>1 DEF ParkedExactlyWhileHeld
<1>5. QueuedExactlyWhenCleared'
  BY <1>1, <1>2 DEF QueuedExactlyWhenCleared
<1>6. OneEntryPerPayment'
  BY DEF OneEntryPerPayment
<1>7. HeldSendsOnlyWhatWasParked'
  BY <1>1, <1>3 DEF HeldSendsOnlyWhatWasParked
<1>8. UnjudgedIsNotHeld'
  BY <1>1 DEF UnjudgedIsNotHeld
<1>9. QED
  BY <1>4, <1>5, <1>6, <1>7, <1>8

\* A call that clears one payment and queues its message.
LEMMA ClearingQueues ==
  ASSUME StoreInv, NEW k \in Key, NEW m \in Message, NEW q \in PaymentRecord,
         ~InOutbox(k), q.state = "SUBMITTED",
         q.risk = "hold" => /\ q.resolution # None /\ q.resolution.action = "released"
                           /\ q.digest = Sha256[m],
         payments' = [payments EXCEPT ![k] = q], Enqueue(k, m),
         \A j \in Key \ {k} : parked'[j] = parked[j],
         parked'[k] = None
  PROVE  Agreement'
<1> USE DEF StoreInv, Agreement
<1> DEFINE new == Len(outbox) + 1
<1>1. /\ payments'[k] = q /\ StateOf(k)' = q.state
      /\ \A j \in Key \ {k} : payments'[j] = payments[j] /\ StateOf(j)' = StateOf(j)
  BY OnePaymentMoves
<1>2. /\ DOMAIN outbox' = DOMAIN outbox \cup {new}
      /\ new \notin DOMAIN outbox
      /\ \A i \in DOMAIN outbox : outbox'[i] = outbox[i]
      /\ outbox'[new].key = k /\ outbox'[new].message = m
  <2>1. outbox \in Seq(OutboxEntry)
    BY DEF StoreTypeOK
  <2>2. outbox'[new] = [key |-> k, message |-> m, published |-> FALSE]
    BY <2>1, EnqueueEffect
  <2>3. outbox'[new].key = k /\ outbox'[new].message = m
    BY <2>2
  <2>4. /\ DOMAIN outbox' = DOMAIN outbox \cup {new}
        /\ new \notin DOMAIN outbox
        /\ \A i \in DOMAIN outbox : outbox'[i] = outbox[i]
    BY <2>1, EnqueueEffect
  <2>5. QED
    BY <2>3, <2>4
<1> HIDE DEF new
<1>3. \A i \in DOMAIN outbox : outbox[i].key \in Key \ {k}
  BY StoredKinds DEF InOutbox
<1>4. \A j \in Key : InOutbox(j)' <=> InOutbox(j) \/ j = k
  BY <1>2 DEF InOutbox
<1>5. ParkedExactlyWhileHeld'
  BY <1>1 DEF ParkedExactlyWhileHeld
<1>6. QueuedExactlyWhenCleared'
  BY <1>1, <1>4 DEF QueuedExactlyWhenCleared, Cleared
<1>7. OneEntryPerPayment'
  BY <1>2, <1>3 DEF OneEntryPerPayment
<1>8. HeldSendsOnlyWhatWasParked'
  <2> SUFFICES ASSUME NEW i \in DOMAIN outbox', payments'[outbox'[i].key].risk = "hold"
               PROVE  LET p == payments'[outbox'[i].key]
                      IN  /\ p.resolution # None /\ p.resolution.action = "released"
                          /\ p.digest = Sha256[outbox'[i].message]
    BY DEF HeldSendsOnlyWhatWasParked
  <2>1. CASE i = new
    BY <2>1, <1>1, <1>2
  <2>2. CASE i \in DOMAIN outbox
    BY <2>2, <1>1, <1>2, <1>3 DEF HeldSendsOnlyWhatWasParked
  <2>3. QED
    BY <2>1, <2>2, <1>2
<1>9. UnjudgedIsNotHeld'
  BY <1>1 DEF UnjudgedIsNotHeld
<1>10. QED
  BY <1>5, <1>6, <1>7, <1>8, <1>9

\* An event appended to a payment, queued or not.
LEMMA AppendKeeps ==
  ASSUME StoreInv, NEW k \in Key, NEW e \in AppendedEvent, AppendEvent(k, e)
  PROVE  Agreement'
<1> USE DEF StoreInv
<1> DEFINE p == payments[k]
           q == After(p, e)
<1>1. p \in PaymentRecord /\ Legal(p, e) /\ StateOf(k) = p.state
  BY StoredKinds DEF AppendEvent, Accepts
<1>2. /\ q \in PaymentRecord
      /\ p.state # "HELD" /\ q.state # "HELD"
      /\ p.state \in Cleared <=> q.state \in Cleared
      /\ q.state \in {"CREATED", "VALIDATED"} => p.state \in {"CREATED", "VALIDATED"}
      /\ q.risk \in {p.risk, "allow", "refuse"}
      /\ p.state \in Cleared => q.risk = p.risk
      /\ q.digest = p.digest /\ q.resolution = p.resolution
  BY <1>1, AppendedEffect, AfterType
<1>3. /\ payments' = [payments EXCEPT ![k] = q]
      /\ outbox' = outbox /\ parked' = parked
  BY DEF AppendEvent
<1> HIDE DEF q
<1>4. /\ payments'[k] = q /\ StateOf(k)' = q.state
      /\ \A j \in Key \ {k} : payments'[j] = payments[j] /\ StateOf(j)' = StateOf(j)
  BY <1>2, <1>3, OnePaymentMoves
<1>5. ParkedExactlyWhileHeld'
  BY <1>1, <1>2, <1>3, <1>4 DEF Agreement, ParkedExactlyWhileHeld
<1>6. QueuedExactlyWhenCleared'
  BY <1>1, <1>2, <1>3, <1>4 DEF Agreement, QueuedExactlyWhenCleared, InOutbox
<1>7. OneEntryPerPayment'
  BY <1>3 DEF Agreement, OneEntryPerPayment
<1>8. HeldSendsOnlyWhatWasParked'
  <2> SUFFICES ASSUME NEW i \in DOMAIN outbox, payments'[outbox[i].key].risk = "hold"
               PROVE  LET r == payments'[outbox[i].key]
                      IN  /\ r.resolution # None /\ r.resolution.action = "released"
                          /\ r.digest = Sha256[outbox[i].message]
    BY <1>3 DEF HeldSendsOnlyWhatWasParked
  <2>1. outbox[i].key \in Key
    BY StoredKinds
  <2>2. CASE outbox[i].key = k
    <3>1. p.state \in Cleared
      BY <2>2, <1>1 DEF Agreement, QueuedExactlyWhenCleared, InOutbox
    <3>2. p.risk = "hold"
      BY <2>2, <3>1, <1>2, <1>4
    <3>3. QED
      BY <2>2, <3>2, <1>2, <1>4 DEF Agreement, HeldSendsOnlyWhatWasParked
  <2>3. CASE outbox[i].key # k
    BY <2>1, <2>3, <1>4 DEF Agreement, HeldSendsOnlyWhatWasParked
  <2>4. QED
    BY <2>2, <2>3
<1>9. UnjudgedIsNotHeld'
  BY <1>1, <1>2, <1>4 DEF Agreement, UnjudgedIsNotHeld
<1>10. QED
  BY <1>5, <1>6, <1>7, <1>8, <1>9 DEF Agreement

\* Every call of the store, and marking an entry, keeps the agreement.
LEMMA AgreementStep == StoreInv /\ [StoreNext]_storeVars => Agreement'
<1> SUFFICES ASSUME StoreInv, [StoreNext]_storeVars
             PROVE  Agreement'
  OBVIOUS
<1>0. StoreTypeOK /\ Agreement
  BY DEF StoreInv
<1>1. ASSUME NEW k \in Key, NEW m \in Message, Create(k, m)
      PROVE  Agreement'
  <2>1. StateOf(k) = "ABSENT"
    BY <1>0, <1>1, StoredKinds DEF Create
  <2>2. parked'[k] = None /\ parked' = parked
    BY <1>0, <1>1, <2>1 DEF Agreement, ParkedExactlyWhileHeld, Create
  <2>3. QED
    BY <1>1, <2>1, <2>2, NewPaymentEffect, UnqueuedMoves DEF Create, Cleared
<1>2. ASSUME NEW k \in Key, NEW m \in Message, SubmitToOutbox(k, m)
      PROVE  Agreement'
  <2> DEFINE q == After(payments[k], Submitted)
  <2>1. /\ payments[k] \in PaymentRecord /\ StateOf(k) = payments[k].state
        /\ Legal(payments[k], Submitted) /\ ~InOutbox(k)
    BY <1>0, <1>2, StoredKinds DEF SubmitToOutbox, Accepts
  <2>2. /\ q \in PaymentRecord
        /\ StateOf(k) = "VALIDATED" /\ q.state = "SUBMITTED"
        /\ q.risk = payments[k].risk
    BY <2>1, SubmittedEffect
  <2>3. /\ payments' = [payments EXCEPT ![k] = q]
        /\ Enqueue(k, m) /\ parked' = parked
    BY <1>2 DEF SubmitToOutbox
  <2> HIDE DEF q
  <2>4. q.risk # "hold"
    BY <1>0, <2>2 DEF Agreement, UnjudgedIsNotHeld
  <2>5. parked'[k] = None
    BY <1>0, <2>2, <2>3 DEF Agreement, ParkedExactlyWhileHeld
  <2>6. QED
    BY <2>1, <2>2, <2>3, <2>4, <2>5, ClearingQueues
<1>3. ASSUME NEW k \in Key, NEW e \in AppendedEvent, AppendCall(k, e)
      PROVE  Agreement'
  BY <1>3, AppendKeeps DEF AppendCall
<1>4. ASSUME NEW k \in Key, NEW m \in Message, NEW t \in Time, Park(k, m, t)
      PROVE  Agreement'
  <2> DEFINE q == After(After(payments[k], RiskChecked("hold", t)), HoldParked(Sha256[m]))
  <2>1. /\ payments[k] \in PaymentRecord /\ StateOf(k) = payments[k].state
        /\ Legal(payments[k], RiskChecked("hold", t))
    BY <1>0, <1>4, StoredKinds DEF Park, Accepts
  <2>2. /\ q \in PaymentRecord
        /\ StateOf(k) = "VALIDATED" /\ q.state = "HELD"
        /\ q.digest = Sha256[m]
    BY <2>1, ParkedEffect
  <2>3. /\ payments' = [payments EXCEPT ![k] = q]
        /\ parked' = [parked EXCEPT ![k] = m] /\ outbox' = outbox
    BY <1>4 DEF Park
  <2> HIDE DEF q
  <2>4. parked'[k] = m /\ \A j \in Key \ {k} : parked'[j] = parked[j]
    BY <1>0, <2>3 DEF StoreTypeOK
  <2>5. m # None
    BY PaymentAssumption
  <2>6. QED
    BY <2>2, <2>3, <2>4, <2>5, UnqueuedMoves DEF Cleared
<1>5. ASSUME NEW k \in Key, NEW d \in Digest, NEW b \in Actor, NEW t \in Time,
             ReleaseParked(k, d, b, t)
      PROVE  Agreement'
  <2> DEFINE q == After(payments[k], HoldReleased(d, b, t))
             m == parked[k]
  <2>1. /\ payments[k] \in PaymentRecord
        /\ Legal(payments[k], HoldReleased(d, b, t))
        /\ m \in Message /\ Sha256[m] = d /\ ~InOutbox(k)
    BY <1>0, <1>5, StoredKinds DEF ReleaseParked, Accepts, StoreTypeOK
  <2>2. /\ q \in PaymentRecord /\ q.state = "SUBMITTED" /\ q.digest = d
        /\ q.resolution # None /\ q.resolution.action = "released"
    BY <2>1, ReleasedEffect
  <2>3. /\ payments' = [payments EXCEPT ![k] = q]
        /\ parked' = [parked EXCEPT ![k] = None] /\ Enqueue(k, m)
    BY <1>5 DEF ReleaseParked
  <2> HIDE DEF q, m
  <2>4. parked'[k] = None /\ \A j \in Key \ {k} : parked'[j] = parked[j]
    BY <1>0, <2>3 DEF StoreTypeOK
  <2>5. QED
    BY <2>1, <2>2, <2>3, <2>4, ClearingQueues
<1>6. ASSUME NEW k \in Key, NEW b \in Actor, NEW t \in Time, DiscardParked(k, b, t)
      PROVE  Agreement'
  <2> DEFINE q == After(payments[k], HoldCancelled(b, t))
  <2>1. /\ payments[k] \in PaymentRecord /\ StateOf(k) = payments[k].state
        /\ Legal(payments[k], HoldCancelled(b, t))
    BY <1>0, <1>6, StoredKinds DEF DiscardParked, Accepts
  <2>2. q \in PaymentRecord /\ StateOf(k) = "HELD" /\ q.state = "CANCELLED"
    BY <2>1, CancelledEffect
  <2>3. /\ payments' = [payments EXCEPT ![k] = q]
        /\ parked' = [parked EXCEPT ![k] = None] /\ outbox' = outbox
    BY <1>6 DEF DiscardParked
  <2> HIDE DEF q
  <2>4. parked'[k] = None /\ \A j \in Key \ {k} : parked'[j] = parked[j]
    BY <1>0, <2>3 DEF StoreTypeOK
  <2>5. QED
    BY <2>2, <2>3, <2>4, UnqueuedMoves DEF Cleared
<1>7. ASSUME NEW i \in DOMAIN outbox, MarkPublished(i)
      PROVE  Agreement'
  <2>1. /\ DOMAIN outbox' = DOMAIN outbox
        /\ \A j \in DOMAIN outbox : /\ outbox'[j].key = outbox[j].key
                                    /\ outbox'[j].message = outbox[j].message
    BY <1>0, <1>7, MarkEffect DEF StoreTypeOK
  <2>2. payments' = payments /\ parked' = parked
    BY <1>7 DEF MarkPublished
  <2>3. QED
    BY <1>0, <2>1, <2>2
       DEF Agreement, ParkedExactlyWhileHeld, QueuedExactlyWhenCleared, InOutbox,
           OneEntryPerPayment, HeldSendsOnlyWhatWasParked, UnjudgedIsNotHeld,
           StateOf, Known
<1>8. CASE UNCHANGED storeVars
  BY <1>0, <1>8
     DEF storeVars, Agreement, ParkedExactlyWhileHeld, QueuedExactlyWhenCleared,
         InOutbox, OneEntryPerPayment, HeldSendsOnlyWhatWasParked,
         UnjudgedIsNotHeld, StateOf, Known
<1>9. QED
  BY <1>1, <1>2, <1>3, <1>4, <1>5, <1>6, <1>7, <1>8 DEF StoreNext, StoreCall

\* State, outbox and parked messages agree, whatever the store is asked.
THEOREM StoreInvariant == StoreSpec => []StoreInv
<1>1. StoreInit => StoreInv
  <2>1. StoreInit => StoreTypeOK
    BY EmptySeq DEF StoreInit, StoreTypeOK
  <2>2. StoreInit => Agreement
    BY DEF StoreInit, Agreement, ParkedExactlyWhileHeld, QueuedExactlyWhenCleared,
           InOutbox, OneEntryPerPayment, HeldSendsOnlyWhatWasParked,
           UnjudgedIsNotHeld, StateOf, Known, Cleared
  <2>3. QED
    BY <2>1, <2>2 DEF StoreInv
<1>2. StoreInv /\ [StoreNext]_storeVars => StoreInv'
  BY StoreTypeStep, AgreementStep DEF StoreInv
<1>3. QED
  BY <1>1, <1>2, PTL DEF StoreSpec

\* Bytes are parked exactly while their payment is held, under the digest that
\* was recorded (hold.rs).
THEOREM ParkingIsExact == StoreSpec => []ParkedExactlyWhileHeld
<1>1. StoreInv => ParkedExactlyWhileHeld
  BY DEF StoreInv, Agreement
<1>2. QED
  BY <1>1, StoreInvariant, PTL

\* An outbox entry and a cleared payment imply each other.
THEOREM QueueIsExact == StoreSpec => []QueuedExactlyWhenCleared
<1>1. StoreInv => QueuedExactlyWhenCleared
  BY DEF StoreInv, Agreement
<1>2. QED
  BY <1>1, StoreInvariant, PTL

\* The outbox never holds two entries of one payment.
THEOREM EntriesAreUnique == StoreSpec => []OneEntryPerPayment
<1>1. StoreInv => OneEntryPerPayment
  BY DEF StoreInv, Agreement
<1>2. QED
  BY <1>1, StoreInvariant, PTL

\* A held payment sends what was parked, after a release, or nothing.
THEOREM HeldSendsParked == StoreSpec => []HeldSendsOnlyWhatWasParked
<1>1. StoreInv => HeldSendsOnlyWhatWasParked
  BY DEF StoreInv, Agreement
<1>2. QED
  BY <1>1, StoreInvariant, PTL

-----------------------------------------------------------------------------
(* Store implements Lifecycle: the initial states map to its initial       *)
(* state, and every call of the store to one of its steps or to none.      *)
(* First, what the mapping sees of a step.                                 *)

\* In an outbox with one entry per key, CHOOSE finds that entry.
LEMMA ChosenEntry ==
  ASSUME NEW s, NEW k, NEW i \in DOMAIN s, s[i].key = k,
         \A a, b \in DOMAIN s : s[a].key = s[b].key => a = b
  PROVE  (CHOOSE j \in DOMAIN s : s[j].key = k) = i
OBVIOUS

\* A step that gives k the aggregate q moves the phase of no other payment.
LEMMA OnePhaseMoves ==
  ASSUME StoreTypeOK, NEW k \in Key, NEW q \in PaymentRecord,
         payments' = [payments EXCEPT ![k] = q]
  PROVE  /\ StateOf(k)' = q.state
         /\ \A j \in Key \ {k} : PhaseOf(j)' = PhaseOf(j)
BY OnePaymentMoves DEF PhaseOf

\* Cleared messages stay while the entries keep their keys and messages.
LEMMA ClearedMessagesStay ==
  ASSUME StoreInv, DOMAIN outbox' = DOMAIN outbox,
         \A i \in DOMAIN outbox : /\ outbox'[i].key = outbox[i].key
                                 /\ outbox'[i].message = outbox[i].message
  PROVE  \A k \in Key : ClearedMessage(k)' = ClearedMessage(k)
<1> TAKE k \in Key
<1>1. InOutbox(k)' <=> InOutbox(k)
  BY DEF InOutbox
<1>2. CASE InOutbox(k)
  <2>1. PICK i \in DOMAIN outbox : outbox[i].key = k
    BY <1>2 DEF InOutbox
  <2>2. EntryOf(k) = i
    BY <2>1, ChosenEntry DEF EntryOf, StoreInv, Agreement, OneEntryPerPayment
  <2>3. EntryOf(k)' = i
    <3>1. \A a, b \in DOMAIN outbox' : outbox'[a].key = outbox'[b].key => a = b
      BY DEF StoreInv, Agreement, OneEntryPerPayment
    <3>2. QED
      BY <2>1, <3>1, ChosenEntry DEF EntryOf
  <2>4. QED
    BY <1>1, <1>2, <2>1, <2>2, <2>3 DEF ClearedMessage
<1>3. CASE ~InOutbox(k)
  BY <1>1, <1>3 DEF ClearedMessage
<1>4. QED
  BY <1>2, <1>3

\* Enqueue clears its message for its key, and nothing else.
LEMMA EnqueueClears ==
  ASSUME StoreInv, NEW k \in Key, NEW m \in Message, ~InOutbox(k), Enqueue(k, m)
  PROVE  /\ ClearedMessage(k)' = m
         /\ \A j \in Key \ {k} : ClearedMessage(j)' = ClearedMessage(j)
<1> DEFINE new == Len(outbox) + 1
<1>1. outbox \in Seq(OutboxEntry)
  BY DEF StoreInv, StoreTypeOK
<1>2. outbox'[new] = [key |-> k, message |-> m, published |-> FALSE]
  BY <1>1, EnqueueEffect
<1>3. outbox'[new].key = k /\ outbox'[new].message = m
  BY <1>2
<1>4. /\ DOMAIN outbox' = DOMAIN outbox \cup {new}
      /\ new \notin DOMAIN outbox
      /\ \A i \in DOMAIN outbox : outbox'[i] = outbox[i]
  BY <1>1, EnqueueEffect
<1> HIDE DEF new
<1>5. \A i \in DOMAIN outbox : outbox[i].key # k
  BY DEF InOutbox
<1>6. \A a, b \in DOMAIN outbox' : outbox'[a].key = outbox'[b].key => a = b
  BY <1>3, <1>4, <1>5 DEF StoreInv, Agreement, OneEntryPerPayment
<1>7. ClearedMessage(k)' = m
  <2>1. EntryOf(k)' = new
    BY <1>3, <1>4, <1>6, ChosenEntry DEF EntryOf
  <2>2. InOutbox(k)'
    BY <1>3, <1>4 DEF InOutbox
  <2>3. QED
    BY <1>3, <2>1, <2>2 DEF ClearedMessage
<1>8. ASSUME NEW j \in Key \ {k}
      PROVE  ClearedMessage(j)' = ClearedMessage(j)
  <2>1. InOutbox(j)' <=> InOutbox(j)
    BY <1>3, <1>4 DEF InOutbox
  <2>2. CASE InOutbox(j)
    <3>1. PICK i \in DOMAIN outbox : outbox[i].key = j
      BY <2>2 DEF InOutbox
    <3>2. EntryOf(j) = i
      BY <3>1, ChosenEntry DEF EntryOf, StoreInv, Agreement, OneEntryPerPayment
    <3>3. EntryOf(j)' = i
      BY <3>1, <1>4, <1>6, ChosenEntry DEF EntryOf
    <3>4. QED
      BY <2>1, <2>2, <3>1, <3>2, <3>3, <1>4 DEF ClearedMessage
  <2>3. CASE ~InOutbox(j)
    BY <2>1, <2>3 DEF ClearedMessage
  <2>4. QED
    BY <2>2, <2>3
<1>9. QED
  BY <1>7, <1>8

-----------------------------------------------------------------------------
(* Steps of Lifecycle.                                                     *)

\* A payment moves alone.
LEMMA MoveMaps ==
  ASSUME NEW k \in Key, NEW from, NEW to,
         PhaseOf(k) = from, PhaseOf(k)' = to,
         \A j \in Key \ {k} : PhaseOf(j)' = PhaseOf(j)
  PROVE  Promise!Move(k, from, to)
BY DEF Promise!Move

\* No payment moves.
LEMMA PhasesStay ==
  ASSUME \A j \in Key : PhaseOf(j)' = PhaseOf(j)
  PROVE  UNCHANGED [j \in Key |-> PhaseOf(j)]
OBVIOUS

\* No message is cleared.
LEMMA ClearedStays ==
  ASSUME \A j \in Key : ClearedMessage(j)' = ClearedMessage(j)
  PROVE  UNCHANGED [j \in Key |-> ClearedMessage(j)]
OBVIOUS

\* One message is cleared.
LEMMA ClearMaps ==
  ASSUME NEW k \in Key, NEW m \in Message,
         PhaseOf(k) \in {"accepted", "held"}, PhaseOf(k)' = "queued",
         \A j \in Key \ {k} : PhaseOf(j)' = PhaseOf(j),
         ClearedMessage(k)' = m,
         \A j \in Key \ {k} : ClearedMessage(j)' = ClearedMessage(j)
  PROVE  Promise!Clear(k, m)
<1>1. \E from \in {"accepted", "held"} : Promise!Move(k, from, "queued")
  BY MoveMaps
<1>2. [j \in Key |-> ClearedMessage(j)]' =
        [[j \in Key |-> ClearedMessage(j)] EXCEPT ![k] = m]
  OBVIOUS
<1>3. QED
  BY <1>1, <1>2 DEF Promise!Clear

\* A plain append leaves the phase, refuses an accepted payment, or settles or
\* rejects a queued one.
LEMMA AppendedPhase ==
  ASSUME NEW p \in PaymentRecord, NEW e \in AppendedEvent, Legal(p, e)
  PROVE  LET s == p.state
             q == After(p, e).state
             pending == {"SUBMITTED", "ACK_PENDING", "TIMEOUT_UNRESOLVED"}
         IN  \/ s = q
             \/ {s, q} \subseteq {"CREATED", "VALIDATED"}
             \/ {s, q} \subseteq pending
             \/ s = "VALIDATED" /\ q = "REFUSED"
             \/ s \in pending /\ q \in {"SETTLED", "REJECTED"}
<1>1. CASE e = Validated
  <2>1. After(p, e) = [p EXCEPT !.state = "VALIDATED"]
    BY <1>1 DEF After, Validated
  <2>2. After(p, e).state = "VALIDATED"
    BY <2>1 DEF PaymentRecord
  <2>3. QED
    BY <1>1, <2>2 DEF Legal, Validated
<1>2. CASE e = TimeoutDeclared
  <2>1. After(p, e) = [p EXCEPT !.state = "TIMEOUT_UNRESOLVED"]
    BY <1>2 DEF After, TimeoutDeclared
  <2>2. After(p, e).state = "TIMEOUT_UNRESOLVED"
    BY <2>1 DEF PaymentRecord
  <2>3. QED
    BY <1>2, <2>2 DEF Legal, TimeoutDeclared
<1>3. CASE \E o \in {"allow", "refuse"}, t \in Time : e = RiskChecked(o, t)
  <2>1. PICK o \in {"allow", "refuse"}, t \in Time : e = RiskChecked(o, t)
    BY <1>3
  <2>2. After(p, e) = [p EXCEPT !.state  = AfterRisk(o), !.risk = o,
                                !.heldAt = IF o = "hold" THEN t ELSE @]
    BY <2>1 DEF After, RiskChecked
  <2>3. After(p, e).state = AfterRisk(o)
    BY <2>2 DEF PaymentRecord
  <2>4. AfterRisk(o) \in {"VALIDATED", "REFUSED"}
    BY DEF AfterRisk
  <2>5. p.state = "VALIDATED"
    BY <2>1 DEF Legal, RiskChecked, RiskCheckable
  <2>6. QED
    BY <2>3, <2>4, <2>5
<1>4. CASE \E t \in Time : e = Published(t)
  <2>1. PICK t \in Time : e = Published(t)
    BY <1>4
  <2>2. After(p, e) = [p EXCEPT !.state = "ACK_PENDING", !.publishedAt = t]
    BY <2>1 DEF After, Published
  <2>3. After(p, e).state = "ACK_PENDING"
    BY <2>2 DEF PaymentRecord
  <2>4. QED
    BY <2>1, <2>3 DEF Legal, Published
<1>5. CASE \E s \in Advice : e = AdviceReceived(s)
  <2>1. PICK s \in Advice : e = AdviceReceived(s)
    BY <1>5
  <2>2. After(p, e) = [p EXCEPT !.state = AfterAdvice(@, s), !.advice = s]
    BY <2>1 DEF After, AdviceReceived
  <2>3. After(p, e).state = AfterAdvice(p.state, s)
    BY <2>2 DEF PaymentRecord
  <2>4. p.state \in {"ACK_PENDING", "TIMEOUT_UNRESOLVED", "SETTLED"}
    BY <2>1 DEF Legal, AdviceReceived
  <2>5. QED
    BY <2>3, <2>4 DEF AfterAdvice
<1>6. CASE \E t \in Time : e = QuerySent(t)
  <2>1. PICK t \in Time : e = QuerySent(t)
    BY <1>6
  <2>2. After(p, e) = [p EXCEPT !.queries = @ + 1, !.lastQueryAt = t]
    BY <2>1 DEF After, QuerySent
  <2>3. After(p, e).state = p.state
    BY <2>2 DEF PaymentRecord
  <2>4. QED
    BY <2>3
<1>7. QED
  BY <1>1, <1>2, <1>3, <1>4, <1>5, <1>6 DEF AppendedEvent

\* The store's initial state is Lifecycle's.
LEMMA PromiseInit == StoreInit => Promise!LifecycleInit
<1> SUFFICES ASSUME StoreInit
             PROVE  Promise!LifecycleInit
  OBVIOUS
<1>1. \A k \in Key : PhaseOf(k) = "absent"
  BY DEF StoreInit, PhaseOf, StateOf, Known
<1>2. \A k \in Key : ClearedMessage(k) = None
  BY DEF StoreInit, ClearedMessage, InOutbox
<1>3. QED
  BY <1>1, <1>2 DEF Promise!LifecycleInit

\* Every call of the store is one step of Lifecycle, or none.
LEMMA PromiseStep ==
  StoreInv /\ [StoreNext]_storeVars
    => [Promise!LifecycleNext]_(Promise!lifecycleVars)
<1> SUFFICES ASSUME StoreInv, [StoreNext]_storeVars
             PROVE  [Promise!LifecycleNext]_(Promise!lifecycleVars)
  OBVIOUS
<1>0. StoreTypeOK
  BY DEF StoreInv
<1>1. ASSUME NEW k \in Key, NEW m \in Message, Create(k, m)
      PROVE  Promise!Accept(k)
  <2>1. /\ StateOf(k)' = "CREATED"
        /\ \A j \in Key \ {k} : PhaseOf(j)' = PhaseOf(j)
    BY <1>0, <1>1, NewPaymentEffect, OnePhaseMoves DEF Create
  <2>2. StateOf(k) = "ABSENT"
    BY <1>0, <1>1, StoredKinds DEF Create
  <2>3. Promise!Move(k, "absent", "accepted")
    BY <2>1, <2>2, MoveMaps DEF PhaseOf
  <2>4. \A j \in Key : ClearedMessage(j)' = ClearedMessage(j)
    BY <1>1, ClearedMessagesStay DEF Create
  <2>5. QED
    BY <2>3, <2>4, ClearedStays DEF Promise!Accept
<1>2. ASSUME NEW k \in Key, NEW m \in Message, SubmitToOutbox(k, m)
      PROVE  Promise!Clear(k, m)
  <2> DEFINE q == After(payments[k], Submitted)
  <2>1. /\ payments[k] \in PaymentRecord /\ StateOf(k) = payments[k].state
        /\ Legal(payments[k], Submitted) /\ ~InOutbox(k)
    BY <1>0, <1>2, StoredKinds DEF SubmitToOutbox, Accepts
  <2>2. /\ q \in PaymentRecord
        /\ StateOf(k) = "VALIDATED" /\ q.state = "SUBMITTED"
    BY <2>1, SubmittedEffect
  <2>3. payments' = [payments EXCEPT ![k] = q] /\ Enqueue(k, m)
    BY <1>2 DEF SubmitToOutbox
  <2> HIDE DEF q
  <2>4. /\ StateOf(k)' = "SUBMITTED"
        /\ \A j \in Key \ {k} : PhaseOf(j)' = PhaseOf(j)
    BY <1>0, <2>2, <2>3, OnePhaseMoves
  <2>5. PhaseOf(k) = "accepted" /\ PhaseOf(k)' = "queued"
    BY <2>2, <2>4 DEF PhaseOf
  <2>6. QED
    BY <2>1, <2>3, <2>4, <2>5, EnqueueClears, ClearMaps
<1>3. ASSUME NEW k \in Key, NEW e \in AppendedEvent, AppendCall(k, e)
      PROVE  \/ Promise!Judge(k) \/ Promise!Resolve(k)
             \/ UNCHANGED Promise!lifecycleVars
  <2> DEFINE q == After(payments[k], e)
  <2>1. /\ payments[k] \in PaymentRecord /\ StateOf(k) = payments[k].state
        /\ Legal(payments[k], e)
    BY <1>0, <1>3, StoredKinds DEF AppendCall, AppendEvent, Accepts
  <2>2. q \in PaymentRecord
    BY <2>1, AppendedEffect, AfterType
  <2>3. /\ payments' = [payments EXCEPT ![k] = q]
        /\ outbox' = outbox
    BY <1>3 DEF AppendCall, AppendEvent
  <2> HIDE DEF q
  <2>4. /\ StateOf(k)' = q.state
        /\ \A j \in Key \ {k} : PhaseOf(j)' = PhaseOf(j)
    BY <1>0, <2>2, <2>3, OnePhaseMoves
  <2>5. \A j \in Key : ClearedMessage(j)' = ClearedMessage(j)
    BY <2>3, ClearedMessagesStay
  <2>6. UNCHANGED [j \in Key |-> ClearedMessage(j)]
    BY <2>5, ClearedStays
  <2>7. \/ PhaseOf(k)' = PhaseOf(k)
        \/ PhaseOf(k) = "accepted" /\ PhaseOf(k)' = "refused"
        \/ PhaseOf(k) = "queued" /\ PhaseOf(k)' \in {"settled", "rejected"}
    <3> DEFINE pending == {"SUBMITTED", "ACK_PENDING", "TIMEOUT_UNRESOLVED"}
    <3>1. \/ StateOf(k) = StateOf(k)'
          \/ {StateOf(k), StateOf(k)'} \subseteq {"CREATED", "VALIDATED"}
          \/ {StateOf(k), StateOf(k)'} \subseteq pending
          \/ StateOf(k) = "VALIDATED" /\ StateOf(k)' = "REFUSED"
          \/ StateOf(k) \in pending /\ StateOf(k)' \in {"SETTLED", "REJECTED"}
      BY <2>1, <2>4, AppendedPhase DEF q
    <3>2. QED
      BY <3>1 DEF PhaseOf
  <2>8. CASE PhaseOf(k)' = PhaseOf(k)
    <3>1. \A j \in Key : PhaseOf(j)' = PhaseOf(j)
      BY <2>4, <2>8
    <3>2. UNCHANGED [j \in Key |-> PhaseOf(j)]
      BY <3>1, PhasesStay
    <3>3. QED
      BY <2>6, <3>2 DEF Promise!lifecycleVars
  <2>9. CASE PhaseOf(k) = "accepted" /\ PhaseOf(k)' = "refused"
    <3>1. Promise!Move(k, "accepted", "refused")
      BY <2>4, <2>9, MoveMaps
    <3>2. QED
      BY <2>6, <3>1 DEF Promise!Judge
  <2>10. CASE PhaseOf(k) = "queued" /\ PhaseOf(k)' \in {"settled", "rejected"}
    <3>1. \E to \in {"settled", "rejected"} : Promise!Move(k, "queued", to)
      BY <2>4, <2>10, MoveMaps
    <3>2. QED
      BY <2>6, <3>1 DEF Promise!Resolve
  <2>11. QED
    BY <2>7, <2>8, <2>9, <2>10
<1>4. ASSUME NEW k \in Key, NEW m \in Message, NEW t \in Time, Park(k, m, t)
      PROVE  Promise!Judge(k)
  <2> DEFINE q == After(After(payments[k], RiskChecked("hold", t)), HoldParked(Sha256[m]))
  <2>1. /\ payments[k] \in PaymentRecord /\ StateOf(k) = payments[k].state
        /\ Legal(payments[k], RiskChecked("hold", t))
    BY <1>0, <1>4, StoredKinds DEF Park, Accepts
  <2>2. q \in PaymentRecord /\ StateOf(k) = "VALIDATED" /\ q.state = "HELD"
    BY <2>1, ParkedEffect
  <2>3. payments' = [payments EXCEPT ![k] = q] /\ outbox' = outbox
    BY <1>4 DEF Park
  <2> HIDE DEF q
  <2>4. /\ StateOf(k)' = "HELD"
        /\ \A j \in Key \ {k} : PhaseOf(j)' = PhaseOf(j)
    BY <1>0, <2>2, <2>3, OnePhaseMoves
  <2>5. Promise!Move(k, "accepted", "held")
    BY <2>2, <2>4, MoveMaps DEF PhaseOf
  <2>6. \A j \in Key : ClearedMessage(j)' = ClearedMessage(j)
    BY <2>3, ClearedMessagesStay
  <2>7. QED
    BY <2>5, <2>6, ClearedStays DEF Promise!Judge
<1>5. ASSUME NEW k \in Key, NEW d \in Digest, NEW b \in Actor, NEW t \in Time,
             ReleaseParked(k, d, b, t)
      PROVE  Promise!Clear(k, parked[k])
  <2> DEFINE q == After(payments[k], HoldReleased(d, b, t))
             m == parked[k]
  <2>1. /\ payments[k] \in PaymentRecord /\ StateOf(k) = payments[k].state
        /\ Legal(payments[k], HoldReleased(d, b, t))
        /\ m \in Message /\ ~InOutbox(k)
    BY <1>0, <1>5, StoredKinds DEF ReleaseParked, Accepts, StoreTypeOK
  <2>2. q \in PaymentRecord /\ StateOf(k) = "HELD" /\ q.state = "SUBMITTED"
    BY <2>1, ReleasedEffect
  <2>3. payments' = [payments EXCEPT ![k] = q] /\ Enqueue(k, m)
    BY <1>5 DEF ReleaseParked
  <2> HIDE DEF q
  <2>4. /\ StateOf(k)' = "SUBMITTED"
        /\ \A j \in Key \ {k} : PhaseOf(j)' = PhaseOf(j)
    BY <1>0, <2>2, <2>3, OnePhaseMoves
  <2>5. PhaseOf(k) = "held" /\ PhaseOf(k)' = "queued"
    BY <2>2, <2>4 DEF PhaseOf
  <2> HIDE DEF m
  <2>6. Promise!Clear(k, m)
    BY <2>1, <2>3, <2>4, <2>5, EnqueueClears, ClearMaps
  <2>7. QED
    BY <2>6 DEF m
<1>6. ASSUME NEW k \in Key, NEW b \in Actor, NEW t \in Time, DiscardParked(k, b, t)
      PROVE  Promise!Cancel(k)
  <2> DEFINE q == After(payments[k], HoldCancelled(b, t))
  <2>1. /\ payments[k] \in PaymentRecord /\ StateOf(k) = payments[k].state
        /\ Legal(payments[k], HoldCancelled(b, t))
    BY <1>0, <1>6, StoredKinds DEF DiscardParked, Accepts
  <2>2. q \in PaymentRecord /\ StateOf(k) = "HELD" /\ q.state = "CANCELLED"
    BY <2>1, CancelledEffect
  <2>3. payments' = [payments EXCEPT ![k] = q] /\ outbox' = outbox
    BY <1>6 DEF DiscardParked
  <2> HIDE DEF q
  <2>4. /\ StateOf(k)' = "CANCELLED"
        /\ \A j \in Key \ {k} : PhaseOf(j)' = PhaseOf(j)
    BY <1>0, <2>2, <2>3, OnePhaseMoves
  <2>5. Promise!Move(k, "held", "cancelled")
    BY <2>2, <2>4, MoveMaps DEF PhaseOf
  <2>6. \A j \in Key : ClearedMessage(j)' = ClearedMessage(j)
    BY <2>3, ClearedMessagesStay
  <2>7. QED
    BY <2>5, <2>6, ClearedStays DEF Promise!Cancel
<1>7. ASSUME NEW i \in DOMAIN outbox, MarkPublished(i)
      PROVE  UNCHANGED Promise!lifecycleVars
  <2>1. \A j \in Key : ClearedMessage(j)' = ClearedMessage(j)
    <3>1. /\ DOMAIN outbox' = DOMAIN outbox
          /\ \A j \in DOMAIN outbox : /\ outbox'[j].key = outbox[j].key
                                      /\ outbox'[j].message = outbox[j].message
      BY <1>0, <1>7, MarkEffect DEF StoreTypeOK
    <3>2. QED
      BY <3>1, ClearedMessagesStay
  <2>2. \A j \in Key : PhaseOf(j)' = PhaseOf(j)
    BY <1>7 DEF MarkPublished, PhaseOf, StateOf, Known
  <2>3. UNCHANGED [j \in Key |-> PhaseOf(j)]
    BY <2>2, PhasesStay
  <2>4. UNCHANGED [j \in Key |-> ClearedMessage(j)]
    BY <2>1, ClearedStays
  <2>5. QED
    BY <2>3, <2>4 DEF Promise!lifecycleVars
<1>8. CASE UNCHANGED storeVars
  <2>1. \A j \in Key : PhaseOf(j)' = PhaseOf(j)
    BY <1>8 DEF storeVars, PhaseOf, StateOf, Known
  <2>2. \A j \in Key : ClearedMessage(j)' = ClearedMessage(j)
    BY <1>8, ClearedMessagesStay DEF storeVars
  <2>3. UNCHANGED [j \in Key |-> PhaseOf(j)]
    BY <2>1, PhasesStay
  <2>4. UNCHANGED [j \in Key |-> ClearedMessage(j)]
    BY <2>2, ClearedStays
  <2>5. QED
    BY <2>3, <2>4 DEF Promise!lifecycleVars
<1>9. CASE \E k \in Key : StoreCall(k)
  <2>1. PICK k \in Key : StoreCall(k)
    BY <1>9
  <2>2. \/ Promise!Accept(k) \/ Promise!Judge(k) \/ Promise!Cancel(k)
        \/ Promise!Resolve(k) \/ \E m \in Message : Promise!Clear(k, m)
        \/ UNCHANGED Promise!lifecycleVars
    <3>1. ASSUME NEW d \in Digest, NEW b \in Actor, NEW t \in Time,
                 ReleaseParked(k, d, b, t)
          PROVE  \E m \in Message : Promise!Clear(k, m)
      <4>1. parked[k] \in Message
        BY <1>0, <3>1 DEF ReleaseParked, StoreTypeOK
      <4>2. QED
        BY <4>1, <3>1, <1>5
    <3>2. QED
      BY <2>1, <3>1, <1>1, <1>2, <1>3, <1>4, <1>6 DEF StoreCall
  <2>3. QED
    BY <2>2 DEF Promise!LifecycleNext
<1>10. QED
  BY <1>7, <1>8, <1>9 DEF StoreNext

\* Whatever it is asked, the store moves every payment as Lifecycle promises.
THEOREM StoreKeepsPromise == StoreSpec => KeepsPromise
<1>1. StoreInv /\ [StoreNext]_storeVars
        => [Promise!LifecycleNext]_(Promise!lifecycleVars)
  BY PromiseStep
<1>2. StoreInit => Promise!LifecycleInit
  BY PromiseInit
<1>3. QED
  BY <1>1, <1>2, StoreInvariant, PTL
     DEF StoreSpec, KeepsPromise, Promise!LifecycleSpec
=============================================================================

--------------------------- MODULE Service_proofs ---------------------------
(***************************************************************************)
(* The service's use of the store and the simulator's use of the ledger,   *)
(* apart from the threads: which store calls the service may make (the     *)
(* discipline of ServiceCall), what they keep true of payments, outbox and *)
(* arrivals (ServiceInv), and what the simulator can tell (SimInv).        *)
(* Gateway_proofs shows that the threads make no other call.               *)
(***************************************************************************)
EXTENDS GatewayProperties, Store_proofs

-----------------------------------------------------------------------------
(* The invariants.                                                         *)

\* What the service tells of a message; of a message id, when no two messages
\* share one (else any of its advices may be told).
Says(m) == {LedgerEntry(m)[i] : i \in DOMAIN LedgerEntry(m)}

DistinctIds == \A m, n \in Message : MsgId[m] = MsgId[n] => m = n

Said(id) ==
  {s \in Advice : DistinctIds => \A m \in Message : MsgId[m] = id => s \in Says(m)}

Told == {a \in AdviceMessage : a.status \in Said(a.id)}

\* The simulator only tells what it has to tell, and only that is on its way:
\* SimTypeOK does not say that much.
SimInv ==
  /\ ledger \in [Id -> Seq(Advice)]
  /\ \A id \in Id : ledger[id] \in Seq(Said(id))
  /\ queue \in Seq(Told)
  /\ pushes \in [AdviceMessage -> Nat]
  /\ \A a \in AdviceMessage : pushes[a] > 0 => a \in Told

\* The history of a payment's hold, in one aggregate.
HoldRecord(p) ==
  /\ p.state = "HELD" => p.heldAt # None
  /\ p.heldAt # None => p.risk = "hold"
  /\ p.state \in {"CREATED", "VALIDATED", "HELD"} => p.resolution = None
  /\ p.resolution # None =>
       IF p.resolution.action = "released"
       THEN p.resolution.at <= p.heldAt + HoldMaxAge
       ELSE p.resolution.by = "gateway" => p.resolution.at > p.heldAt + HoldMaxAge

\* Its outcome is one the service told of its message.
OutcomeRecord(p) ==
  /\ p.state = "SETTLED"  => Said(MsgId[p.message]) \cap SettlesFunds # {}
  /\ p.state = "REJECTED" => "RJCT" \in Said(MsgId[p.message])

HoldsOnRecord == \A k \in Key : Known(k) => HoldRecord(payments[k])

OutcomesOnRecord == \A k \in Key : Known(k) => OutcomeRecord(payments[k])

\* What reached the service had an outbox entry.
ArrivedIsQueued == \A k \in Key : arrivals[k] > 0 => InOutbox(k)

ServiceInv ==
  /\ SendsWhatWasAccepted
  /\ UnpublishedIsSubmitted
  /\ PublishedMeansArrived
  /\ ArrivedIsQueued
  /\ HoldsOnRecord
  /\ OutcomesOnRecord

-----------------------------------------------------------------------------
(* What events do to the history in an aggregate.                          *)

\* A plain append: message, hold and resolution stay as they are; a queued
\* payment only moves on by Published, and a final state stays.
LEMMA AppendedHistory ==
  ASSUME NEW p \in PaymentRecord, NEW e \in AppendedEvent, Legal(p, e)
  PROVE  LET q == After(p, e)
         IN  /\ q.message = p.message /\ q.heldAt = p.heldAt
             /\ q.resolution = p.resolution
             /\ p.risk # None => q.risk = p.risk
             /\ p.state = "SUBMITTED" => e.kind = "Published"
             /\ q.state \in Cleared \ {"SUBMITTED"}
                  => e.kind = "Published" \/ p.state \in Cleared \ {"SUBMITTED"}
             /\ p.state \in Terminal => q.state = p.state
<1> DEFINE q == After(p, e)
<1>1. CASE e = Validated
  <2>1. p.state = "CREATED"
    BY <1>1 DEF Legal, Validated
  <2>2. q = [p EXCEPT !.state = "VALIDATED"]
    BY <1>1 DEF After, Validated
  <2>3. QED
    BY <2>1, <2>2 DEF PaymentRecord, Cleared, Terminal
<1>2. CASE e = TimeoutDeclared
  <2>1. p.state = "ACK_PENDING"
    BY <1>2 DEF Legal, TimeoutDeclared
  <2>2. q = [p EXCEPT !.state = "TIMEOUT_UNRESOLVED"]
    BY <1>2 DEF After, TimeoutDeclared
  <2>3. QED
    BY <2>1, <2>2 DEF PaymentRecord, Cleared, Terminal
<1>3. CASE \E o \in {"allow", "refuse"}, t \in Time : e = RiskChecked(o, t)
  <2>1. PICK o \in {"allow", "refuse"}, t \in Time : e = RiskChecked(o, t)
    BY <1>3
  <2>2. p.state = "VALIDATED" /\ p.risk = None
    BY <2>1 DEF Legal, RiskChecked, RiskCheckable
  <2>3. q = [p EXCEPT !.state  = AfterRisk(o), !.risk = o,
                      !.heldAt = IF o = "hold" THEN t ELSE @]
    BY <2>1 DEF After, RiskChecked
  <2>4. AfterRisk(o) \in {"VALIDATED", "REFUSED"}
    BY DEF AfterRisk
  <2>5. /\ q.state \in {"VALIDATED", "REFUSED"}
        /\ q.message = p.message /\ q.heldAt = p.heldAt
        /\ q.resolution = p.resolution
    BY <2>3, <2>4 DEF PaymentRecord
  <2>6. QED
    BY <2>2, <2>5 DEF Cleared, Terminal
<1>4. CASE \E t \in Time : e = Published(t)
  <2>1. PICK t \in Time : e = Published(t)
    BY <1>4
  <2>2. p.state = "SUBMITTED" /\ e.kind = "Published"
    BY <2>1 DEF Legal, Published
  <2>3. q = [p EXCEPT !.state = "ACK_PENDING", !.publishedAt = t]
    BY <2>1 DEF After, Published
  <2>4. QED
    BY <2>2, <2>3 DEF PaymentRecord, Cleared, Terminal
<1>5. CASE \E s \in Advice : e = AdviceReceived(s)
  <2>1. PICK s \in Advice : e = AdviceReceived(s)
    BY <1>5
  <2>2. p.state \in {"ACK_PENDING", "TIMEOUT_UNRESOLVED", "SETTLED"}
    BY <2>1 DEF Legal, AdviceReceived
  <2>3. q = [p EXCEPT !.state = AfterAdvice(@, s), !.advice = s]
    BY <2>1 DEF After, AdviceReceived
  <2>4. /\ p.state = "SETTLED" => AfterAdvice(p.state, s) = "SETTLED"
        /\ AfterAdvice(p.state, s) \in {p.state, "SETTLED", "REJECTED"}
    BY DEF AfterAdvice
  <2>5. /\ q.state = AfterAdvice(p.state, s)
        /\ q.message = p.message /\ q.heldAt = p.heldAt
        /\ q.risk = p.risk /\ q.resolution = p.resolution
    BY <2>3, <2>4 DEF PaymentRecord
  <2>6. QED
    BY <2>2, <2>4, <2>5 DEF Cleared, Terminal
<1>6. CASE \E t \in Time : e = QuerySent(t)
  <2>1. PICK t \in Time : e = QuerySent(t)
    BY <1>6
  <2>2. p.state = "TIMEOUT_UNRESOLVED"
    BY <2>1 DEF Legal, QuerySent, Queryable
  <2>3. q = [p EXCEPT !.queries = @ + 1, !.lastQueryAt = t]
    BY <2>1 DEF After, QuerySent
  <2>4. QED
    BY <2>2, <2>3 DEF PaymentRecord, Cleared, Terminal
<1>7. QED
  BY <1>1, <1>2, <1>3, <1>4, <1>5, <1>6 DEF AppendedEvent

\* Only an advice gives a payment an outcome.
LEMMA AppendedOutcome ==
  ASSUME NEW p \in PaymentRecord, NEW e \in AppendedEvent, Legal(p, e),
         e.kind # "AdviceReceived"
  PROVE  After(p, e).state \notin {"SETTLED", "REJECTED"}
<1>1. CASE e = Validated
  BY <1>1 DEF After, Validated, PaymentRecord
<1>2. CASE e = TimeoutDeclared
  BY <1>2 DEF After, TimeoutDeclared, PaymentRecord
<1>3. CASE \E o \in {"allow", "refuse"}, t \in Time : e = RiskChecked(o, t)
  <2>1. PICK o \in {"allow", "refuse"}, t \in Time : e = RiskChecked(o, t)
    BY <1>3
  <2>2. After(p, e) = [p EXCEPT !.state  = AfterRisk(o), !.risk = o,
                                !.heldAt = IF o = "hold" THEN t ELSE @]
    BY <2>1 DEF After, RiskChecked
  <2>3. AfterRisk(o) \in {"VALIDATED", "REFUSED"}
    BY DEF AfterRisk
  <2>4. QED
    BY <2>2, <2>3 DEF PaymentRecord
<1>4. CASE \E t \in Time : e = Published(t)
  <2>1. PICK t \in Time : e = Published(t)
    BY <1>4
  <2>2. After(p, e) = [p EXCEPT !.state = "ACK_PENDING", !.publishedAt = t]
    BY <2>1 DEF After, Published
  <2>3. QED
    BY <2>2 DEF PaymentRecord
<1>5. CASE \E s \in Advice : e = AdviceReceived(s)
  BY <1>5 DEF AdviceReceived
<1>6. CASE \E t \in Time : e = QuerySent(t)
  <2>1. PICK t \in Time : e = QuerySent(t)
    BY <1>6
  <2>2. p.state = "TIMEOUT_UNRESOLVED"
    BY <2>1 DEF Legal, QuerySent, Queryable
  <2>3. After(p, e) = [p EXCEPT !.queries = @ + 1, !.lastQueryAt = t]
    BY <2>1 DEF After, QuerySent
  <2>4. QED
    BY <2>2, <2>3 DEF PaymentRecord
<1>7. QED
  BY <1>1, <1>2, <1>3, <1>4, <1>5, <1>6 DEF AppendedEvent

\* A plain append keeps the history of the hold.
LEMMA AppendKeepsHold ==
  ASSUME NEW p \in PaymentRecord, NEW e \in AppendedEvent, Legal(p, e), HoldRecord(p)
  PROVE  HoldRecord(After(p, e))
<1> DEFINE q == After(p, e)
<1>1. /\ q.heldAt = p.heldAt /\ q.resolution = p.resolution
      /\ p.risk # None => q.risk = p.risk
  BY AppendedHistory
<1>2. /\ p.state # "HELD" /\ q.state # "HELD"
      /\ q.state \in {"CREATED", "VALIDATED"} => p.state \in {"CREATED", "VALIDATED"}
  BY AppendedEffect
<1>3. "hold" # None
  BY PaymentAssumption DEF RiskOutcome
<1> HIDE DEF q
<1>4. QED
  BY <1>1, <1>2, <1>3 DEF HoldRecord, q

\* An advice the service told of the message keeps the outcome, and no other
\* event touches it.
LEMMA AppendKeepsOutcome ==
  ASSUME NEW p \in PaymentRecord, NEW e \in AppendedEvent, Legal(p, e),
         OutcomeRecord(p),
         e.kind = "AdviceReceived" => e.status \in Said(MsgId[p.message])
  PROVE  OutcomeRecord(After(p, e))
<1> DEFINE q == After(p, e)
<1>1. q.message = p.message
  BY AppendedHistory
<1>2. CASE e.kind = "AdviceReceived"
  <2>1. q = [p EXCEPT !.state = AfterAdvice(@, e.status), !.advice = e.status]
    BY <1>2 DEF After
  <2>2. q.state = AfterAdvice(p.state, e.status)
    BY <2>1 DEF PaymentRecord
  <2> HIDE DEF q
  <2>3. CASE p.state = "SETTLED"
    BY <1>1, <2>2, <2>3 DEF AfterAdvice, OutcomeRecord, q
  <2>4. CASE p.state # "SETTLED" /\ e.status \in SettlesFunds
    <3>1. q.state = "SETTLED" /\ e.status \in Said(MsgId[q.message])
      BY <1>1, <1>2, <2>2, <2>4 DEF AfterAdvice
    <3>2. QED
      BY <2>4, <3>1 DEF OutcomeRecord, q
  <2>5. CASE p.state # "SETTLED" /\ e.status \notin SettlesFunds /\ e.status = "RJCT"
    <3>1. q.state = "REJECTED" /\ "RJCT" \in Said(MsgId[q.message])
      BY <1>1, <1>2, <2>2, <2>5 DEF AfterAdvice
    <3>2. QED
      BY <3>1 DEF OutcomeRecord, q
  <2>6. CASE p.state # "SETTLED" /\ e.status \notin SettlesFunds /\ e.status # "RJCT"
    <3>1. q.state = p.state
      BY <2>2, <2>6 DEF AfterAdvice
    <3>2. QED
      BY <1>1, <3>1 DEF OutcomeRecord, q
  <2>7. QED
    BY <2>3, <2>4, <2>5, <2>6
<1>3. CASE e.kind # "AdviceReceived"
  <2>1. q.state \notin {"SETTLED", "REJECTED"}
    BY <1>3, AppendedOutcome
  <2> HIDE DEF q
  <2>2. QED
    BY <2>1 DEF OutcomeRecord, q
<1>4. QED
  BY <1>2, <1>3

\* Submitted leaves the message and the unheld history.
LEMMA SubmitKeepsHold ==
  ASSUME NEW p \in PaymentRecord, Legal(p, Submitted), HoldRecord(p)
  PROVE  LET q == After(p, Submitted)
         IN  q.message = p.message /\ q.heldAt = p.heldAt /\ HoldRecord(q)
<1>1. p.state = "VALIDATED"
  BY DEF Legal, Submitted
<1>2. After(p, Submitted) = [p EXCEPT !.state = "SUBMITTED"]
  BY DEF After, Submitted
<1>3. QED
  BY <1>1, <1>2 DEF HoldRecord, PaymentRecord

\* A hold is dated, and only then.
LEMMA ParkKeepsHold ==
  ASSUME NEW p \in PaymentRecord, NEW m \in Message, NEW t \in Time,
         Legal(p, RiskChecked("hold", t)), HoldRecord(p)
  PROVE  LET q == After(After(p, RiskChecked("hold", t)), HoldParked(Sha256[m]))
         IN  q.message = p.message /\ p.heldAt = None /\ HoldRecord(q)
<1> DEFINE h == After(p, RiskChecked("hold", t))
           q == After(h, HoldParked(Sha256[m]))
<1>1. p.state = "VALIDATED" /\ p.risk = None
  BY DEF Legal, RiskChecked, RiskCheckable
<1>2. h = [p EXCEPT !.state = AfterRisk("hold"), !.risk = "hold", !.heldAt = t]
  BY DEF After, RiskChecked
<1>3. q = [h EXCEPT !.digest = Sha256[m]]
  BY DEF After, HoldParked
<1>4. t # None /\ "hold" # None
  BY PaymentAssumption DEF RiskOutcome
<1>5. /\ q.message = p.message /\ q.heldAt = t /\ q.risk = "hold"
      /\ q.resolution = p.resolution
  BY <1>2, <1>3 DEF PaymentRecord
<1>6. p.resolution = None /\ p.heldAt = None
  BY <1>1, <1>4 DEF HoldRecord
<1> HIDE DEF h, q
<1>7. QED
  BY <1>4, <1>5, <1>6 DEF HoldRecord, h, q

\* A release in time keeps the history.
LEMMA ReleaseKeepsHold ==
  ASSUME NEW p \in PaymentRecord, NEW d \in Digest, NEW t \in Time,
         Legal(p, HoldReleased(d, "operator", t)), HoldRecord(p),
         t <= p.heldAt + HoldMaxAge
  PROVE  LET q == After(p, HoldReleased(d, "operator", t))
         IN  q.message = p.message /\ q.heldAt = p.heldAt /\ HoldRecord(q)
<1> DEFINE q == After(p, HoldReleased(d, "operator", t))
           r == [action |-> "released", by |-> "operator", at |-> t]
<1>1. p.state = "HELD"
  BY DEF Legal, HoldReleased, Releasable
<1>2. q = [p EXCEPT !.state = "SUBMITTED", !.resolution = r]
  BY DEF After, HoldReleased
<1>3. r.action = "released" /\ r.at = t
  OBVIOUS
<1> HIDE DEF r
<1>4. /\ q.message = p.message /\ q.heldAt = p.heldAt /\ q.risk = p.risk
      /\ q.state = "SUBMITTED" /\ q.resolution = r
  BY <1>2 DEF PaymentRecord
<1> HIDE DEF q
<1>5. QED
  BY <1>3, <1>4 DEF HoldRecord, q

\* So does a cancellation by an operator, or by the gateway when it is overdue.
LEMMA CancelKeepsHold ==
  ASSUME NEW p \in PaymentRecord, NEW b \in Actor, NEW t \in Time,
         Legal(p, HoldCancelled(b, t)), HoldRecord(p),
         b = "gateway" => t > p.heldAt + HoldMaxAge
  PROVE  LET q == After(p, HoldCancelled(b, t))
         IN  q.message = p.message /\ q.heldAt = p.heldAt /\ HoldRecord(q)
<1> DEFINE q == After(p, HoldCancelled(b, t))
           r == [action |-> "cancelled", by |-> b, at |-> t]
<1>1. p.state = "HELD"
  BY DEF Legal, HoldCancelled
<1>2. q = [p EXCEPT !.state = "CANCELLED", !.digest = None, !.resolution = r]
  BY DEF After, HoldCancelled
<1>3. r.action = "cancelled" /\ r.at = t /\ r.by = b
  OBVIOUS
<1> HIDE DEF r
<1>4. /\ q.message = p.message /\ q.heldAt = p.heldAt /\ q.risk = p.risk
      /\ q.state = "CANCELLED" /\ q.resolution = r
  BY <1>2 DEF PaymentRecord
<1> HIDE DEF q
<1>5. QED
  BY <1>3, <1>4 DEF HoldRecord, q

\* A new payment has no history.
LEMMA NewPaymentHold ==
  ASSUME NEW m \in Message
  PROVE  /\ HoldRecord(NewPayment(m))
         /\ NewPayment(m).message = m /\ NewPayment(m).heldAt = None
BY PaymentAssumption DEF NewPayment, HoldRecord

-----------------------------------------------------------------------------
(* The store calls the service makes: those of StoreNext, with what the    *)
(* service has made sure of before.                                        *)

\* Published is recorded for an entry already marked, whose message arrived.
MayRecordPublished(k) ==
  /\ arrivals[k] > 0
  /\ \E i \in DOMAIN outbox : outbox[i].key = k /\ outbox[i].published

\* An advice is recorded of a payment whose message it is about.
MayRecordAdvice(k, s) == s \in Said(MsgId[payments[k].message])

ServiceCall(k) ==
  \/ \E m \in Message : Create(k, m)
  \/ SubmitToOutbox(k, payments[k].message)
  \/ \E e \in AppendedEvent :
       /\ AppendCall(k, e)
       /\ e.kind = "Published" => MayRecordPublished(k)
       /\ e.kind = "AdviceReceived" => MayRecordAdvice(k, e.status)
  \/ \E t \in Time : Park(k, payments[k].message, t)
  \/ \E d \in Digest, t \in Time :
       ReleaseParked(k, d, "operator", t) /\ t <= payments[k].heldAt + HoldMaxAge
  \/ \E b \in Actor, t \in Time :
       /\ DiscardParked(k, b, t)
       /\ b = "gateway" => t > payments[k].heldAt + HoldMaxAge

ServiceStore ==
  \/ \E k \in Key : ServiceCall(k)
  \/ \E i \in DOMAIN outbox : MarkPublished(i)
  \/ UNCHANGED storeVars

\* What a step leaves as it was, for threads that read it earlier.
Stable ==
  /\ \A k \in Key : Known(k) =>
       /\ Known(k)' /\ payments'[k].message = payments[k].message
       /\ payments[k].heldAt # None => payments'[k].heldAt = payments[k].heldAt
  /\ \A i \in DOMAIN outbox :
       /\ i \in DOMAIN outbox'
       /\ outbox'[i].key = outbox[i].key /\ outbox'[i].message = outbox[i].message
       /\ outbox[i].published => outbox'[i].published

\* Arrivals are counted upwards, and only for what is queued.
ArrivalsGrow ==
  /\ arrivals \in [Key -> 0..MaxArrivals] /\ arrivals' \in [Key -> 0..MaxArrivals]
  /\ \A k \in Key : /\ arrivals[k] <= arrivals'[k]
                    /\ arrivals'[k] > 0 => arrivals[k] > 0 \/ InOutbox(k)

\* What the service asks of the store is what Store lets a caller ask.
LEMMA ServiceIsACaller == StoreInv /\ ServiceStore => [StoreNext]_storeVars
<1> SUFFICES ASSUME StoreInv, ServiceStore
             PROVE  [StoreNext]_storeVars
  OBVIOUS
<1>1. ASSUME NEW k \in Key, ServiceCall(k)
      PROVE  StoreCall(k)
  <2>1. Known(k) => payments[k].message \in Message
    BY DEF StoreInv, StoreTypeOK, Known, PaymentRecord
  <2>2. CASE \E m \in Message : Create(k, m)
    BY <2>2 DEF StoreCall
  <2>3. CASE SubmitToOutbox(k, payments[k].message)
    <3>1. payments[k].message \in Message
      BY <2>1, <2>3 DEF SubmitToOutbox, Accepts
    <3>2. QED
      BY <2>3, <3>1 DEF StoreCall
  <2>4. CASE \E e \in AppendedEvent :
               /\ AppendCall(k, e)
               /\ e.kind = "Published" => MayRecordPublished(k)
               /\ e.kind = "AdviceReceived" => MayRecordAdvice(k, e.status)
    <3>1. PICK e \in AppendedEvent : AppendCall(k, e)
      BY <2>4
    <3>2. Known(k)
      BY <3>1 DEF AppendCall, AppendEvent, Accepts
    <3>3. QED
      BY <3>1, <3>2 DEF StoreCall
  <2>5. CASE \E t \in Time : Park(k, payments[k].message, t)
    <3>1. PICK t \in Time : Park(k, payments[k].message, t)
      BY <2>5
    <3>2. payments[k].message \in Message
      BY <2>1, <3>1 DEF Park, Accepts
    <3>3. QED
      BY <3>1, <3>2 DEF StoreCall
  <2>6. CASE \E d \in Digest, t \in Time :
               ReleaseParked(k, d, "operator", t) /\ t <= payments[k].heldAt + HoldMaxAge
    BY <2>6 DEF StoreCall, Actor
  <2>7. CASE \E b \in Actor, t \in Time :
               /\ DiscardParked(k, b, t)
               /\ b = "gateway" => t > payments[k].heldAt + HoldMaxAge
    BY <2>7 DEF StoreCall
  <2>8. QED
    BY <1>1, <2>2, <2>3, <2>4, <2>5, <2>6, <2>7 DEF ServiceCall
<1>2. QED
  BY <1>1 DEF ServiceStore, StoreNext

\* Arrivals aside, the parts of ServiceInv a store call can disturb.
Discipline ==
  /\ SendsWhatWasAccepted /\ UnpublishedIsSubmitted /\ PublishedMeansArrived
  /\ HoldsOnRecord /\ OutcomesOnRecord

\* A call that moves one payment and leaves the outbox.
LEMMA PaymentMoves ==
  ASSUME StoreInv, ServiceInv, ArrivalsGrow,
         NEW k \in Key, NEW q \in PaymentRecord,
         payments' = [payments EXCEPT ![k] = q], outbox' = outbox,
         \A j \in Key \ {k} : parked'[j] = parked[j],
         parked'[k] # None => parked'[k] = q.message,
         Known(k) => /\ q.message = payments[k].message
                     /\ payments[k].heldAt # None => q.heldAt = payments[k].heldAt,
         HoldRecord(q), OutcomeRecord(q),
         \A i \in Unpublished : outbox[i].key # k,
         q.state \in Cleared \ {"SUBMITTED"} => arrivals[k] > 0
  PROVE  Stable /\ Discipline'
<1>1. /\ payments'[k] = q /\ StateOf(k)' = q.state
      /\ \A j \in Key \ {k} : payments'[j] = payments[j] /\ StateOf(j)' = StateOf(j)
  BY OnePaymentMoves DEF StoreInv
<1>2. q # None
  BY RecordIsKnown
<1>3. \A i \in DOMAIN outbox : outbox[i].key \in Key /\ Known(outbox[i].key)
  BY StoredKinds
     DEF StoreInv, Agreement, QueuedExactlyWhenCleared, InOutbox, Cleared, StateOf
<1>4. Stable
  BY <1>1, <1>2 DEF Stable, Known
<1>5. SendsWhatWasAccepted'
  <2>1. \A i \in DOMAIN outbox : outbox[i].message = payments'[outbox[i].key].message
    BY <1>1, <1>3 DEF ServiceInv, SendsWhatWasAccepted
  <2>2. \A j \in Key : parked'[j] # None => parked'[j] = payments'[j].message
    BY <1>1 DEF ServiceInv, SendsWhatWasAccepted
  <2>3. QED
    BY <2>1, <2>2 DEF SendsWhatWasAccepted
<1>6. UnpublishedIsSubmitted'
  <2>1. \A i \in Unpublished : outbox[i].key \in Key \ {k}
    BY <1>3 DEF Unpublished
  <2>2. QED
    BY <1>1, <2>1 DEF ServiceInv, UnpublishedIsSubmitted, Unpublished
<1>7. PublishedMeansArrived'
  <2> SUFFICES ASSUME NEW j \in Key, StateOf(j)' \in Cleared \ {"SUBMITTED"}
               PROVE  arrivals'[j] > 0
    BY DEF PublishedMeansArrived
  <2>1. arrivals[j] > 0
    BY <1>1 DEF ServiceInv, PublishedMeansArrived
  <2>2. QED
    BY <2>1 DEF ArrivalsGrow
<1>8. HoldsOnRecord' /\ OutcomesOnRecord'
  BY <1>1 DEF ServiceInv, HoldsOnRecord, OutcomesOnRecord, Known
<1>9. QED
  BY <1>4, <1>5, <1>6, <1>7, <1>8 DEF Discipline

\* A call that clears one payment and queues the message it was created with.
LEMMA ClearingMoves ==
  ASSUME StoreInv, ServiceInv, ArrivalsGrow,
         NEW k \in Key, NEW q \in PaymentRecord, NEW m \in Message,
         payments' = [payments EXCEPT ![k] = q], Enqueue(k, m), ~InOutbox(k),
         \A j \in Key \ {k} : parked'[j] = parked[j],
         parked'[k] # None => parked'[k] = q.message,
         Known(k), m = payments[k].message,
         q.message = payments[k].message, q.heldAt = payments[k].heldAt,
         HoldRecord(q), q.state = "SUBMITTED"
  PROVE  Stable /\ Discipline'
<1> DEFINE new == Len(outbox) + 1
<1>1. /\ payments'[k] = q /\ StateOf(k)' = q.state
      /\ \A j \in Key \ {k} : payments'[j] = payments[j] /\ StateOf(j)' = StateOf(j)
  BY OnePaymentMoves DEF StoreInv
<1>2. /\ DOMAIN outbox' = DOMAIN outbox \cup {new}
      /\ new \notin DOMAIN outbox
      /\ \A i \in DOMAIN outbox : outbox'[i] = outbox[i]
      /\ outbox'[new].key = k /\ outbox'[new].message = m
  <2>1. outbox \in Seq(OutboxEntry)
    BY DEF StoreInv, StoreTypeOK
  <2>2. outbox'[new] = [key |-> k, message |-> m, published |-> FALSE]
    BY <2>1, EnqueueEffect
  <2>3. outbox'[new].key = k /\ outbox'[new].message = m
    BY <2>2
  <2>4. /\ DOMAIN outbox' = DOMAIN outbox \cup {new}
        /\ new \notin DOMAIN outbox
        /\ \A i \in DOMAIN outbox : outbox'[i] = outbox[i]
    BY <2>1, EnqueueEffect
  <2>5. QED
    BY <2>3, <2>4
<1> HIDE DEF new
<1>3. \A i \in DOMAIN outbox : outbox[i].key \in Key \ {k}
  BY StoredKinds DEF StoreInv, InOutbox
<1>4. q # None
  BY RecordIsKnown
<1>5. Stable
  BY <1>1, <1>2, <1>4 DEF Stable, Known
<1>6. SendsWhatWasAccepted'
  <2>1. \A i \in DOMAIN outbox' : outbox'[i].message = payments'[outbox'[i].key].message
    BY <1>1, <1>2, <1>3 DEF ServiceInv, SendsWhatWasAccepted
  <2>2. \A j \in Key : parked'[j] # None => parked'[j] = payments'[j].message
    BY <1>1 DEF ServiceInv, SendsWhatWasAccepted
  <2>3. QED
    BY <2>1, <2>2 DEF SendsWhatWasAccepted
<1>7. UnpublishedIsSubmitted'
  BY <1>1, <1>2, <1>3 DEF ServiceInv, UnpublishedIsSubmitted, Unpublished
<1>8. PublishedMeansArrived'
  <2> SUFFICES ASSUME NEW j \in Key, StateOf(j)' \in Cleared \ {"SUBMITTED"}
               PROVE  arrivals'[j] > 0
    BY DEF PublishedMeansArrived
  <2>1. arrivals[j] > 0
    BY <1>1 DEF ServiceInv, PublishedMeansArrived
  <2>2. QED
    BY <2>1 DEF ArrivalsGrow
<1>9. OutcomeRecord(q)
  BY DEF OutcomeRecord
<1>10. HoldsOnRecord' /\ OutcomesOnRecord'
  BY <1>1, <1>9 DEF ServiceInv, HoldsOnRecord, OutcomesOnRecord, Known
<1>11. QED
  BY <1>5, <1>6, <1>7, <1>8, <1>10 DEF Discipline

\* mark_published marks its entry, and takes no mark back.
LEMMA MarkedIsPublished ==
  ASSUME StoreTypeOK, NEW i \in DOMAIN outbox, MarkPublished(i)
  PROVE  /\ outbox'[i].published
         /\ \A j \in DOMAIN outbox : outbox[j].published => outbox'[j].published
<1> DEFINE entry == [outbox[i] EXCEPT !.published = TRUE]
<1>1. outbox \in Seq(OutboxEntry) /\ DOMAIN outbox = 1..Len(outbox)
  BY LenProperties DEF StoreTypeOK
<1>2. outbox[i] \in OutboxEntry
  BY <1>1, ElementOfSeq
<1>3. entry \in OutboxEntry /\ entry.published = TRUE
  BY <1>2 DEF OutboxEntry
<1>4. outbox' = [outbox EXCEPT ![i] = entry]
  BY DEF MarkPublished
<1> HIDE DEF entry
<1>5. \A j \in 1..Len(outbox) : outbox'[j] = IF j = i THEN entry ELSE outbox[j]
  BY <1>1, <1>3, <1>4, ExceptSeq
<1>6. QED
  BY <1>1, <1>3, <1>5

\* Every call of the service keeps the discipline, and what threads rely on.
LEMMA DisciplineStep ==
  ASSUME StoreInv, ServiceInv, ArrivalsGrow, ServiceStore
  PROVE  Stable /\ Discipline'
<1>0. StoreTypeOK /\ Agreement
  BY DEF StoreInv
<1>1. ASSUME NEW k \in Key, NEW m \in Message, Create(k, m)
      PROVE  Stable /\ Discipline'
  <2> DEFINE q == NewPayment(m)
  <2>1. StateOf(k) = "ABSENT"
    BY <1>0, <1>1, StoredKinds DEF Create
  <2>2. q \in PaymentRecord /\ q.state = "CREATED" /\ HoldRecord(q)
    BY NewPaymentEffect, NewPaymentHold
  <2>3. /\ payments' = [payments EXCEPT ![k] = q]
        /\ outbox' = outbox /\ parked' = parked /\ ~Known(k)
    BY <1>1 DEF Create
  <2>4. parked'[k] = None
    BY <1>0, <2>1, <2>3 DEF Agreement, ParkedExactlyWhileHeld
  <2>5. \A i \in Unpublished : outbox[i].key # k
    BY <2>1 DEF ServiceInv, UnpublishedIsSubmitted
  <2> HIDE DEF q
  <2>6. OutcomeRecord(q)
    BY <2>2 DEF OutcomeRecord
  <2>7. QED
    BY <2>2, <2>3, <2>4, <2>5, <2>6, PaymentMoves DEF Cleared
<1>2. ASSUME NEW k \in Key, SubmitToOutbox(k, payments[k].message)
      PROVE  Stable /\ Discipline'
  <2> DEFINE p == payments[k]
             q == After(p, Submitted)
             m == p.message
  <2>1. /\ p \in PaymentRecord /\ StateOf(k) = p.state
        /\ Legal(p, Submitted) /\ ~InOutbox(k) /\ Known(k)
    BY <1>0, <1>2, StoredKinds DEF SubmitToOutbox, Accepts
  <2>2. HoldRecord(p) /\ m \in Message
    BY <2>1 DEF ServiceInv, HoldsOnRecord, PaymentRecord
  <2>3. q \in PaymentRecord /\ p.state = "VALIDATED" /\ q.state = "SUBMITTED"
    BY <2>1, SubmittedEffect
  <2>4. q.message = m /\ q.heldAt = p.heldAt /\ HoldRecord(q)
    BY <2>1, <2>2, SubmitKeepsHold
  <2>5. /\ payments' = [payments EXCEPT ![k] = q]
        /\ Enqueue(k, m) /\ parked' = parked
    BY <1>2 DEF SubmitToOutbox
  <2> HIDE DEF q
  <2>6. parked'[k] = None
    BY <1>0, <2>1, <2>3, <2>5 DEF Agreement, ParkedExactlyWhileHeld
  <2>7. QED
    BY <2>1, <2>2, <2>3, <2>4, <2>5, <2>6, ClearingMoves
<1>3. ASSUME NEW k \in Key, NEW e \in AppendedEvent, AppendEvent(k, e),
             e.kind = "Published" => MayRecordPublished(k),
             e.kind = "AdviceReceived" => MayRecordAdvice(k, e.status)
      PROVE  Stable /\ Discipline'
  <2> DEFINE p == payments[k]
             q == After(p, e)
  <2>1. p \in PaymentRecord /\ Legal(p, e) /\ StateOf(k) = p.state /\ Known(k)
    BY <1>0, <1>3, StoredKinds DEF AppendEvent, Accepts
  <2>2. HoldRecord(p) /\ OutcomeRecord(p)
    BY <2>1 DEF ServiceInv, HoldsOnRecord, OutcomesOnRecord
  <2>3. q \in PaymentRecord /\ HoldRecord(q)
    BY <2>1, <2>2, AppendedEffect, AfterType, AppendKeepsHold
  <2>10. OutcomeRecord(q)
    BY <1>3, <2>1, <2>2, AppendKeepsOutcome DEF MayRecordAdvice
  <2>4. /\ q.message = p.message /\ q.heldAt = p.heldAt
        /\ p.state = "SUBMITTED" => e.kind = "Published"
        /\ q.state \in Cleared \ {"SUBMITTED"}
             => e.kind = "Published" \/ p.state \in Cleared \ {"SUBMITTED"}
        /\ p.state # "HELD"
    BY <2>1, AppendedHistory, AppendedEffect
  <2>5. /\ payments' = [payments EXCEPT ![k] = q]
        /\ outbox' = outbox /\ parked' = parked
    BY <1>3 DEF AppendEvent
  <2> HIDE DEF q
  <2>6. parked'[k] = None
    BY <1>0, <2>1, <2>4, <2>5 DEF Agreement, ParkedExactlyWhileHeld
  <2>7. \A i \in Unpublished : outbox[i].key # k
    <3> SUFFICES ASSUME NEW i \in Unpublished, outbox[i].key = k
                 PROVE  FALSE
      OBVIOUS
    <3>1. p.state = "SUBMITTED" /\ i \in DOMAIN outbox /\ ~outbox[i].published
      BY <2>1 DEF ServiceInv, UnpublishedIsSubmitted, Unpublished
    <3>2. PICK j \in DOMAIN outbox : outbox[j].key = k /\ outbox[j].published
      BY <1>3, <2>4, <3>1 DEF MayRecordPublished
    <3>3. i = j
      BY <1>0, <3>1, <3>2 DEF Agreement, OneEntryPerPayment
    <3>4. QED
      BY <3>1, <3>2, <3>3
  <2>8. q.state \in Cleared \ {"SUBMITTED"} => arrivals[k] > 0
    BY <1>3, <2>1, <2>4 DEF MayRecordPublished, ServiceInv, PublishedMeansArrived
  <2>9. QED
    BY <2>1, <2>3, <2>4, <2>5, <2>6, <2>7, <2>8, <2>10, PaymentMoves
<1>4. ASSUME NEW k \in Key, NEW t \in Time, Park(k, payments[k].message, t)
      PROVE  Stable /\ Discipline'
  <2> DEFINE p == payments[k]
             m == p.message
             q == After(After(p, RiskChecked("hold", t)), HoldParked(Sha256[m]))
  <2>1. /\ p \in PaymentRecord /\ StateOf(k) = p.state /\ Known(k)
        /\ Legal(p, RiskChecked("hold", t))
    BY <1>0, <1>4, StoredKinds DEF Park, Accepts
  <2>2. HoldRecord(p) /\ m \in Message
    BY <2>1 DEF ServiceInv, HoldsOnRecord, PaymentRecord
  <2>3. q \in PaymentRecord /\ p.state = "VALIDATED" /\ q.state = "HELD"
    BY <2>1, <2>2, ParkedEffect
  <2>4. q.message = m /\ p.heldAt = None /\ HoldRecord(q)
    BY <2>1, <2>2, ParkKeepsHold
  <2>5. /\ payments' = [payments EXCEPT ![k] = q]
        /\ parked' = [parked EXCEPT ![k] = m] /\ outbox' = outbox
    BY <1>4 DEF Park
  <2> HIDE DEF q
  <2>6. parked'[k] = m /\ \A j \in Key \ {k} : parked'[j] = parked[j]
    BY <1>0, <2>5 DEF StoreTypeOK
  <2>7. \A i \in Unpublished : outbox[i].key # k
    BY <2>1, <2>3 DEF ServiceInv, UnpublishedIsSubmitted
  <2>8. q.state \notin Cleared
    BY <2>3 DEF Cleared
  <2>9. OutcomeRecord(q)
    BY <2>3 DEF OutcomeRecord
  <2>10. QED
    BY <2>1, <2>3, <2>4, <2>5, <2>6, <2>7, <2>8, <2>9, PaymentMoves
<1>5. ASSUME NEW k \in Key, NEW d \in Digest, NEW t \in Time,
             ReleaseParked(k, d, "operator", t), t <= payments[k].heldAt + HoldMaxAge
      PROVE  Stable /\ Discipline'
  <2> DEFINE p == payments[k]
             q == After(p, HoldReleased(d, "operator", t))
             m == parked[k]
  <2>1. /\ p \in PaymentRecord /\ Known(k)
        /\ Legal(p, HoldReleased(d, "operator", t))
        /\ m \in Message /\ m # None /\ ~InOutbox(k)
    BY <1>0, <1>5, StoredKinds DEF ReleaseParked, Accepts, StoreTypeOK
  <2>2. HoldRecord(p) /\ m = p.message
    BY <2>1 DEF ServiceInv, HoldsOnRecord, SendsWhatWasAccepted
  <2>3. q \in PaymentRecord /\ q.state = "SUBMITTED"
    BY <2>1, ReleasedEffect DEF Actor
  <2>4. q.message = p.message /\ q.heldAt = p.heldAt /\ HoldRecord(q)
    BY <1>5, <2>1, <2>2, ReleaseKeepsHold
  <2>5. /\ payments' = [payments EXCEPT ![k] = q]
        /\ parked' = [parked EXCEPT ![k] = None] /\ Enqueue(k, m)
    BY <1>5 DEF ReleaseParked
  <2> HIDE DEF q, m
  <2>6. parked'[k] = None /\ \A j \in Key \ {k} : parked'[j] = parked[j]
    BY <1>0, <2>5 DEF StoreTypeOK
  <2>7. QED
    BY <2>1, <2>2, <2>3, <2>4, <2>5, <2>6, ClearingMoves
<1>6. ASSUME NEW k \in Key, NEW b \in Actor, NEW t \in Time, DiscardParked(k, b, t),
             b = "gateway" => t > payments[k].heldAt + HoldMaxAge
      PROVE  Stable /\ Discipline'
  <2> DEFINE p == payments[k]
             q == After(p, HoldCancelled(b, t))
  <2>1. /\ p \in PaymentRecord /\ StateOf(k) = p.state /\ Known(k)
        /\ Legal(p, HoldCancelled(b, t))
    BY <1>0, <1>6, StoredKinds DEF DiscardParked, Accepts
  <2>2. HoldRecord(p)
    BY <2>1 DEF ServiceInv, HoldsOnRecord
  <2>3. q \in PaymentRecord /\ p.state = "HELD" /\ q.state = "CANCELLED"
    BY <2>1, CancelledEffect
  <2>4. q.message = p.message /\ q.heldAt = p.heldAt /\ HoldRecord(q)
    BY <1>6, <2>1, <2>2, CancelKeepsHold
  <2>5. /\ payments' = [payments EXCEPT ![k] = q]
        /\ parked' = [parked EXCEPT ![k] = None] /\ outbox' = outbox
    BY <1>6 DEF DiscardParked
  <2> HIDE DEF q
  <2>6. parked'[k] = None /\ \A j \in Key \ {k} : parked'[j] = parked[j]
    BY <1>0, <2>5 DEF StoreTypeOK
  <2>7. \A i \in Unpublished : outbox[i].key # k
    BY <2>1, <2>3 DEF ServiceInv, UnpublishedIsSubmitted
  <2>8. q.state \notin Cleared
    BY <2>3 DEF Cleared
  <2>9. OutcomeRecord(q)
    BY <2>3 DEF OutcomeRecord
  <2>10. QED
    BY <2>1, <2>3, <2>4, <2>5, <2>6, <2>7, <2>8, <2>9, PaymentMoves
<1>7. CASE payments' = payments /\ parked' = parked
             /\ DOMAIN outbox' = DOMAIN outbox
             /\ \A i \in DOMAIN outbox : /\ outbox'[i].key = outbox[i].key
                                         /\ outbox'[i].message = outbox[i].message
                                         /\ outbox[i].published => outbox'[i].published
  <2>1. \A k \in Key : StateOf(k)' = StateOf(k) /\ (Known(k)' <=> Known(k))
    BY <1>7 DEF StateOf, Known
  <2>2. \A i \in Unpublished' : i \in Unpublished
    BY <1>7 DEF Unpublished
  <2>3. Stable
    BY <1>7, <2>1 DEF Stable
  <2>4. SendsWhatWasAccepted'
    BY <1>7 DEF ServiceInv, SendsWhatWasAccepted
  <2>5. UnpublishedIsSubmitted'
    <3> SUFFICES ASSUME NEW i \in Unpublished'
                 PROVE  StateOf(outbox[i].key)' = "SUBMITTED"
      BY DEF UnpublishedIsSubmitted
    <3>1. i \in DOMAIN outbox /\ StateOf(outbox[i].key) = "SUBMITTED"
      BY <2>2 DEF ServiceInv, UnpublishedIsSubmitted, Unpublished
    <3>2. outbox'[i].key = outbox[i].key /\ outbox[i].key \in Key
      BY <1>0, <1>7, <3>1, StoredKinds
    <3>3. QED
      BY <1>7, <3>1, <3>2 DEF StateOf, Known
  <2>6. PublishedMeansArrived'
    BY <2>1 DEF ServiceInv, PublishedMeansArrived, ArrivalsGrow
  <2>7. HoldsOnRecord' /\ OutcomesOnRecord'
    BY <1>7, <2>1 DEF ServiceInv, HoldsOnRecord, OutcomesOnRecord
  <2>8. QED
    BY <2>3, <2>4, <2>5, <2>6, <2>7 DEF Discipline
<1>8. ASSUME NEW i \in DOMAIN outbox, MarkPublished(i)
      PROVE  Stable /\ Discipline'
  <2>1. /\ DOMAIN outbox' = DOMAIN outbox
        /\ \A j \in DOMAIN outbox : /\ outbox'[j].key = outbox[j].key
                                    /\ outbox'[j].message = outbox[j].message
    BY <1>0, <1>8, MarkEffect DEF StoreTypeOK
  <2>2. payments' = payments /\ parked' = parked
    BY <1>8 DEF MarkPublished
  <2>3. \A j \in DOMAIN outbox : outbox[j].published => outbox'[j].published
    BY <1>0, <1>8, MarkedIsPublished
  <2>4. QED
    BY <1>7, <2>1, <2>2, <2>3
<1>9. CASE UNCHANGED storeVars
  BY <1>7, <1>9 DEF storeVars
<1>10. QED
  BY <1>1, <1>2, <1>3, <1>4, <1>5, <1>6, <1>8, <1>9
     DEF ServiceStore, ServiceCall, AppendCall

-----------------------------------------------------------------------------
(* The simulator.                                                          *)

\* What is told of a message id is an advice.
LEMMA SaidAreAdvices ==
  ASSUME NEW id
  PROVE  Said(id) \subseteq Advice /\ Said(id) \subseteq AdviceStatus
BY StoreAssumption DEF Said

\* What a pacs.008 puts on the ledger is what the service tells of it.
LEMMA LedgerTellsAdvices ==
  ASSUME NEW m \in Message
  PROVE  LET A == Said(MsgId[m])
         IN  /\ LedgerEntry(m) \in Seq(A) /\ LedgerEntry(m) # << >>
             /\ Head(LedgerEntry(m)) \in A
             /\ Scenario[m].followUp # None => Scenario[m].followUp \in A
             /\ Scenario[m].action = "delay" => "ACSC" \in A
<1> DEFINE s == Scenario[m]
           A == Said(MsgId[m])
<1> SUFFICES /\ LedgerEntry(m) \in Seq(A) /\ LedgerEntry(m) # << >>
             /\ Head(LedgerEntry(m)) \in A
             /\ Scenario[m].followUp # None => Scenario[m].followUp \in A
             /\ Scenario[m].action = "delay" => "ACSC" \in A
  OBVIOUS
<1>1. s \in ScenarioType
  BY SimulatorAssumption
<1>2. \A i \in DOMAIN LedgerEntry(m) : LedgerEntry(m)[i] \in A
  <2> SUFFICES ASSUME NEW i \in DOMAIN LedgerEntry(m)
               PROVE  LedgerEntry(m)[i] \in A
    OBVIOUS
  <2>1. LedgerEntry(m)[i] \in Advice /\ LedgerEntry(m)[i] \in Says(m)
    BY GatewayAssumption DEF Says
  <2>2. DistinctIds => \A n \in Message : MsgId[n] = MsgId[m] => n = m
    BY DEF DistinctIds
  <2>3. QED
    BY <2>1, <2>2 DEF Said
<1> HIDE DEF A
<1>3. CASE s.action = "reject"
  <2>1. LedgerEntry(m) = <<"RJCT">> /\ s.followUp = None
    BY <1>1, <1>3 DEF LedgerEntry, ScenarioType
  <2>2. "RJCT" \in A
    BY <1>2, <2>1
  <2>3. QED
    BY <1>3, <2>1, <2>2
<1>4. CASE s.action = "awp" /\ s.followUp = None
  <2>1. LedgerEntry(m) = <<"ACWP">>
    BY <1>4 DEF LedgerEntry
  <2>2. "ACWP" \in A
    BY <1>2, <2>1
  <2>3. QED
    BY <1>4, <2>1, <2>2
<1>5. CASE s.action = "awp" /\ s.followUp # None
  <2>1. LedgerEntry(m) = <<"ACWP", s.followUp>>
    BY <1>5 DEF LedgerEntry
  <2>2. "ACWP" \in A /\ s.followUp \in A
    <3>1. 1 \in DOMAIN LedgerEntry(m) /\ 2 \in DOMAIN LedgerEntry(m)
      BY <2>1
    <3>2. LedgerEntry(m)[1] = "ACWP" /\ LedgerEntry(m)[2] = s.followUp
      BY <2>1
    <3>3. QED
      BY <1>2, <3>1, <3>2
  <2>3. QED
    BY <1>5, <2>1, <2>2
<1>6. CASE s.action \notin {"reject", "awp"}
  <2>1. LedgerEntry(m) = <<"ACSC">> /\ s.followUp = None
    BY <1>1, <1>6 DEF LedgerEntry, ScenarioType
  <2>2. "ACSC" \in A
    BY <1>2, <2>1
  <2>3. QED
    BY <1>6, <2>1, <2>2
<1>7. QED
  BY <1>3, <1>4, <1>5, <1>6

\* A pacs.008 keeps the simulator telling advices only, and what its sender
\* reads is one, or that it was accepted.
LEMMA Pacs008Tells ==
  ASSUME SimInv, NEW m \in Message, NEW transport, HandlePacs008(m, transport)
  PROVE  SimInv'
<1> USE DEF SimInv
<1>1. MsgId[m] \in Id
  BY DEF Id
<1>2. \A a \in Said(MsgId[m]) : About(m, a) \in Told
  BY <1>1, SaidAreAdvices DEF About, Told, AdviceMessage
<1>3. /\ ledger' \in [Id -> Seq(Advice)]
      /\ \A id \in Id : ledger'[id] \in Seq(Said(id))
  <2>1. ledger' = [ledger EXCEPT ![MsgId[m]] = LedgerEntry(m)]
    BY DEF HandlePacs008
  <2>2. LedgerEntry(m) \in Seq(Said(MsgId[m]))
    BY LedgerTellsAdvices
  <2>3. LedgerEntry(m) \in Seq(Advice)
    BY <2>2, SaidAreAdvices, SeqMonotonic
  <2>4. QED
    BY <2>1, <2>2, <2>3
<1>4. queue' \in Seq(Told)
  <2>1. CASE transport = "mq"
    <3>1. queue' = queue \o EnqueuedAtOnce(m)
      BY <2>1 DEF HandlePacs008
    <3>2. About(m, Head(LedgerEntry(m))) \in Told
      BY <1>2, LedgerTellsAdvices
    <3>3. EnqueuedAtOnce(m) \in Seq(Told)
      BY <3>2 DEF EnqueuedAtOnce
    <3>4. QED
      BY <3>1, <3>3, ConcatProperties
  <2>2. CASE transport # "mq"
    BY <2>2 DEF HandlePacs008
  <2>3. QED
    BY <2>1, <2>2
<1>5. /\ pushes' \in [AdviceMessage -> Nat]
      /\ \A a \in AdviceMessage : pushes'[a] > 0 => a \in Told
  <2>1. CASE transport = "mq"
    <3>1. pushes' = [a \in AdviceMessage |->
                       IF a \in PushedLater(m) THEN pushes[a] + 1 ELSE pushes[a]]
      BY <2>1 DEF HandlePacs008
    <3>2. PushedLater(m) \subseteq Told
      BY <1>2, LedgerTellsAdvices DEF PushedLater
    <3>3. QED
      BY <3>1, <3>2
  <2>2. CASE transport # "mq"
    BY <2>2 DEF HandlePacs008
  <2>3. QED
    BY <2>1, <2>2
<1>6. QED
  BY <1>3, <1>4, <1>5

\* What the sender of a pacs.008 reads.
LEMMA Pacs008Reply ==
  ASSUME NEW m \in Message, NEW transport
  PROVE  ReplyToPacs008(m, transport) \in Said(MsgId[m]) \cup {"Accepted"}
BY LedgerTellsAdvices DEF ReplyToPacs008

\* A query is answered with the latest advice on the ledger, if there is one.
LEMMA Pacs028Tells ==
  ASSUME SimInv, NEW id \in Id, NEW transport, HandlePacs028(id, transport)
  PROVE  /\ SimInv'
         /\ ReplyToPacs028(id, transport) \in Said(id) \cup {"Accepted", "Rejected"}
<1> USE DEF SimInv
<1>1. ledger[id] \in Seq(Said(id))
  OBVIOUS
<1>2. ledger[id] # << >> => Last(ledger[id]) \in Said(id)
  <2> HAVE ledger[id] # << >>
  <2>1. Len(ledger[id]) \in 1..Len(ledger[id])
    BY <1>1, EmptySeq, LenProperties
  <2>2. QED
    BY <1>1, <2>1, ElementOfSeq DEF Last
<1>3. ReplyToPacs028(id, transport) \in Said(id) \cup {"Accepted", "Rejected"}
  BY <1>2 DEF ReplyToPacs028
<1>4. ledger' = ledger /\ pushes' = pushes
  BY DEF HandlePacs028
<1>5. queue' \in Seq(Told)
  <2>1. CASE transport = "mq" /\ ledger[id] # << >>
    <3>1. queue' = Append(queue, [id |-> id, status |-> Last(ledger[id])])
      BY <2>1 DEF HandlePacs028
    <3>2. [id |-> id, status |-> Last(ledger[id])] \in Told
      BY <1>2, <2>1, SaidAreAdvices DEF Told, AdviceMessage
    <3>3. QED
      BY <3>1, <3>2, AppendProperties
  <2>2. CASE ~(transport = "mq" /\ ledger[id] # << >>)
    BY <2>2 DEF HandlePacs028
  <2>3. QED
    BY <2>1, <2>2
<1>6. QED
  BY <1>3, <1>4, <1>5

\* A get takes the oldest advice.
LEMMA ReceiveTells ==
  ASSUME SimInv, HandleReceive
  PROVE  SimInv' /\ Head(queue) \in Told
BY HeadTailProperties DEF SimInv, HandleReceive

\* An advice pushed late is one that was promised.
LEMMA PushTells ==
  ASSUME SimInv, NEW a \in AdviceMessage, Push(a)
  PROVE  SimInv'
<1> USE DEF SimInv
<1>1. a \in Told
  BY DEF Push
<1>2. queue' \in Seq(Told)
  BY <1>1, AppendProperties DEF Push
<1>3. /\ ledger' = ledger
      /\ pushes' = [pushes EXCEPT ![a] = @ - 1] /\ pushes[a] > 0
  BY DEF Push
<1>4. QED
  BY <1>2, <1>3

\* A restart empties it.
LEMMA RestartTells == SimRestart => SimInv'
<1>1. /\ << >> \in Seq(Advice) /\ << >> \in Seq(Told)
      /\ \A id \in Id : << >> \in Seq(Said(id))
  BY EmptySeq
<1>2. QED
  BY <1>1 DEF SimRestart, SimInv

\* The simulator starts empty.
LEMMA SimStartsTelling == SimInit => SimInv
<1>1. /\ << >> \in Seq(Advice) /\ << >> \in Seq(Told)
      /\ \A id \in Id : << >> \in Seq(Said(id))
  BY EmptySeq
<1>2. QED
  BY <1>1 DEF SimInit, SimInv

\* A sequence of advices is a sequence of advice statuses.
LEMMA SimInvTypes == SimInv => SimTypeOK
<1> SUFFICES ASSUME SimInv
             PROVE  SimTypeOK
  OBVIOUS
<1>1. ledger \in [Id -> Seq(AdviceStatus)]
  <2>1. Seq(Advice) \subseteq Seq(AdviceStatus)
    BY StoreAssumption, SeqMonotonic
  <2>2. QED
    BY <2>1 DEF SimInv
<1>2. queue \in Seq(AdviceMessage)
  <2>1. Told \subseteq AdviceMessage
    BY DEF Told
  <2>2. Seq(Told) \subseteq Seq(AdviceMessage)
    BY <2>1, SeqMonotonic
  <2>3. QED
    BY <2>2 DEF SimInv
<1>3. QED
  BY <1>1, <1>2 DEF SimInv, SimTypeOK
=============================================================================

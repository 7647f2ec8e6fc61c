--------------------------- MODULE Gateway_proofs ---------------------------
(***************************************************************************)
(* Proofs about Gateway, for any keys, messages, deployments and bounds:   *)
(* the types of its variables, that its threads make only the store calls  *)
(* Store describes, and the safety properties TLC checks on the instances  *)
(* of MCGateway.                                                           *)
(*                                                                         *)
(* A thread decides on what it read in one transaction and acts on it in   *)
(* a later one, so the invariant says what stays true of a thread's locals *)
(* meanwhile (Locals), and every step is shown to make a store call that   *)
(* keeps the service's discipline (ServiceCall of Service_proofs).         *)
(***************************************************************************)
EXTENDS Service_proofs, WellOrder

-----------------------------------------------------------------------------
(* The invariant.                                                          *)

Working    == {"validate", "risk", "enqueue", "release", "cancel", "discard",
               "declare", "ask", "query", "answer"}
Submitting == {"validate", "risk", "enqueue"}
Handing    == {"send", "mark", "publish", "advise"}

\* What a thread with locals r can count on when its next step comes, in a
\* state with payments ps, outbox ob and arrivals ar.
Locals(r, ps, ob, ar) ==
  /\ r.pc \in Working => r.key \in Key /\ ps[r.key] # None
  /\ r.pc \in Submitting => r.message = ps[r.key].message
  /\ r.pc = "release" =>
       /\ r.digest \in Digest
       /\ ps[r.key].heldAt # None /\ r.now <= ps[r.key].heldAt + HoldMaxAge
  /\ r.pc = "discard" =>
       ps[r.key].heldAt # None /\ r.now > ps[r.key].heldAt + HoldMaxAge
  /\ r.pc \in Handing => r.entry \in DOMAIN ob
  /\ r.pc \in {"publish", "advise"} => ob[r.entry].published
  /\ (r.pc \in {"publish", "advise"} \/ (r.pc = "mark" /\ r.reply # "Rejected"))
       => ar[ob[r.entry].key] > 0
  /\ r.pc \in {"mark", "publish"} =>
       r.reply \in Said(MsgId[ob[r.entry].message]) \cup {"Accepted", "Rejected"}
  /\ r.pc = "advise"    => r.reply \in Said(MsgId[ob[r.entry].message])
  /\ r.pc = "answer"    => r.reply \in Said(MsgId[ps[r.key].message])
  /\ r.pc = "correlate" => r.reply \in Said(r.about)

ThreadsInv ==
  /\ thread \in [Thread -> ThreadRecord]
  /\ \A t \in Thread : Locals(thread[t], payments, outbox, arrivals)

EnvInv ==
  /\ deployment \in Deployments
  /\ todo \subseteq KnownKeys
  /\ clock \in Time
  /\ left \in Fault
  /\ arrivals \in [Key -> 0..MaxArrivals]

GatewayInv == StoreInv /\ SimInv /\ ServiceInv /\ ThreadsInv /\ EnvInv

-----------------------------------------------------------------------------
(* What each place in the code asks of a thread's locals.                  *)

\* Between operations and at the head of a loop, nothing.
LEMMA FreeLocals ==
  ASSUME NEW r, NEW ps, NEW ob, NEW ar,
         r.pc \in {"idle", "fetch", "poll", "expire", "reconcile"}
  PROVE  Locals(r, ps, ob, ar)
BY DEF Locals, Working, Submitting, Handing

\* A step that only needs its payment to exist.
LEMMA KeyLocals ==
  ASSUME NEW r, NEW ps, NEW ob, NEW ar,
         r.pc \in {"cancel", "declare", "ask", "query"},
         r.key \in Key, ps[r.key] # None
  PROVE  Locals(r, ps, ob, ar)
BY DEF Locals, Working, Submitting, Handing

\* The answer to a query is about the payment's own message.
LEMMA AnswerLocals ==
  ASSUME NEW r, NEW ps, NEW ob, NEW ar,
         r.pc = "answer", r.key \in Key, ps[r.key] # None,
         r.reply \in Said(MsgId[ps[r.key].message])
  PROVE  Locals(r, ps, ob, ar)
BY DEF Locals, Working, Submitting, Handing

\* A submitter works on the payment it created.
LEMMA SubmitLocals ==
  ASSUME NEW r, NEW ps, NEW ob, NEW ar,
         r.pc \in Submitting,
         r.key \in Key, ps[r.key] # None, r.message = ps[r.key].message
  PROVE  Locals(r, ps, ob, ar)
BY DEF Locals, Working, Submitting, Handing

\* A release goes ahead while the hold is in time.
LEMMA ReleaseLocals ==
  ASSUME NEW r, NEW ps, NEW ob, NEW ar,
         r.pc = "release", r.key \in Key, ps[r.key] # None, r.digest \in Digest,
         ps[r.key].heldAt # None, r.now <= ps[r.key].heldAt + HoldMaxAge
  PROVE  Locals(r, ps, ob, ar)
BY DEF Locals, Working, Submitting, Handing

\* A hold is discarded because it is overdue.
LEMMA DiscardLocals ==
  ASSUME NEW r, NEW ps, NEW ob, NEW ar,
         r.pc = "discard", r.key \in Key, ps[r.key] # None,
         ps[r.key].heldAt # None, r.now > ps[r.key].heldAt + HoldMaxAge
  PROVE  Locals(r, ps, ob, ar)
BY DEF Locals, Working, Submitting, Handing

\* A publisher has taken an entry.
LEMMA SendLocals ==
  ASSUME NEW r, NEW ps, NEW ob, NEW ar,
         r.pc = "send", r.entry \in DOMAIN ob
  PROVE  Locals(r, ps, ob, ar)
BY DEF Locals, Working, Submitting, Handing

\* It was handed off, unless it was refused on the way.
LEMMA MarkLocals ==
  ASSUME NEW r, NEW ps, NEW ob, NEW ar,
         r.pc = "mark", r.entry \in DOMAIN ob,
         r.reply \in Said(MsgId[ob[r.entry].message]) \cup {"Accepted", "Rejected"},
         r.reply # "Rejected" => ar[ob[r.entry].key] > 0
  PROVE  Locals(r, ps, ob, ar)
BY DEF Locals, Working, Submitting, Handing

\* Then it is marked, and the handoff still to be recorded.
LEMMA PublishLocals ==
  ASSUME NEW r, NEW ps, NEW ob, NEW ar,
         r.pc = "publish", r.entry \in DOMAIN ob, ob[r.entry].published,
         r.reply \in Said(MsgId[ob[r.entry].message]) \cup {"Accepted", "Rejected"},
         ar[ob[r.entry].key] > 0
  PROVE  Locals(r, ps, ob, ar)
BY DEF Locals, Working, Submitting, Handing

\* Last, the service's answer to that message is to be recorded.
LEMMA AdviseLocals ==
  ASSUME NEW r, NEW ps, NEW ob, NEW ar,
         r.pc = "advise", r.entry \in DOMAIN ob, ob[r.entry].published,
         r.reply \in Said(MsgId[ob[r.entry].message]), ar[ob[r.entry].key] > 0
  PROVE  Locals(r, ps, ob, ar)
BY DEF Locals, Working, Submitting, Handing

\* An advice from the queue says which message it is about.
LEMMA CorrelateLocals ==
  ASSUME NEW r, NEW ps, NEW ob, NEW ar,
         r.pc = "correlate", r.reply \in Said(r.about)
  PROVE  Locals(r, ps, ob, ar)
BY DEF Locals, Working, Submitting, Handing

\* Other threads' steps leave a thread what it counts on.
LEMMA LocalsLast ==
  ASSUME StoreTypeOK, Stable, ArrivalsGrow,
         NEW r \in ThreadRecord, Locals(r, payments, outbox, arrivals)
  PROVE  Locals(r, payments', outbox', arrivals')
<1>1. \A k \in Key : payments[k] # None =>
        /\ payments'[k] # None /\ payments'[k].message = payments[k].message
        /\ payments[k].heldAt # None => payments'[k].heldAt = payments[k].heldAt
  BY DEF Stable, Known
<1>2. \A i \in DOMAIN outbox :
        /\ i \in DOMAIN outbox' /\ outbox'[i].key = outbox[i].key
        /\ outbox'[i].message = outbox[i].message
        /\ outbox[i].published => outbox'[i].published
        /\ outbox[i].key \in Key
  BY StoredKinds DEF Stable
<1>3. \A k \in Key : arrivals[k] > 0 => arrivals'[k] > 0
  BY DEF ArrivalsGrow
<1>4. r.pc \in Working =>
        /\ r.key \in Key /\ payments'[r.key] # None
        /\ payments'[r.key].message = payments[r.key].message
        /\ payments[r.key].heldAt # None
             => payments'[r.key].heldAt = payments[r.key].heldAt
  BY <1>1 DEF Locals
<1>5. r.pc \in Handing =>
        /\ r.entry \in DOMAIN outbox' /\ outbox'[r.entry].key = outbox[r.entry].key
        /\ outbox'[r.entry].message = outbox[r.entry].message
        /\ outbox[r.entry].published => outbox'[r.entry].published
        /\ arrivals[outbox[r.entry].key] > 0 => arrivals'[outbox'[r.entry].key] > 0
  BY <1>2, <1>3 DEF Locals
<1>6. QED
  BY <1>4, <1>5 DEF Locals, Working, Submitting, Handing

-----------------------------------------------------------------------------
(* From a step of one thread to the invariant.                             *)

\* Thread t changes its locals to some it can count on.
Moves(t) ==
  \E r \in ThreadRecord : /\ Locals(r, payments', outbox', arrivals')
                          /\ thread' = [thread EXCEPT ![t] = r]

\* Every call the service may make keeps the service's invariant.
LEMMA ServiceInvStep ==
  ASSUME StoreInv, ServiceInv, ArrivalsGrow, ServiceStore
  PROVE  Stable /\ ServiceInv'
<1>1. Stable /\ Discipline'
  BY DisciplineStep
<1>2. ArrivedIsQueued'
  BY <1>1 DEF ServiceInv, ArrivedIsQueued, ArrivalsGrow, InOutbox, Stable
<1>3. QED
  BY <1>1, <1>2 DEF ServiceInv, Discipline

\* It is a call the store describes, so it keeps the store's invariant too.
LEMMA StoreInvStep ==
  ASSUME StoreInv, ServiceStore
  PROVE  StoreInv'
BY ServiceIsACaller, StoreTypeStep, AgreementStep DEF StoreInv

\* What every step is shown to be: it keeps the invariant, and is a call the
\* service may make.
GoodStep == GatewayInv' /\ ServiceStore

\* A thread's step keeps the invariant when its store call keeps the
\* discipline and it ends with locals it can count on.
LEMMA StepKeeps ==
  ASSUME GatewayInv, ServiceStore, ArrivalsGrow, SimInv',
         NEW t \in Thread, Moves(t),
         todo' \subseteq KnownKeys, clock' \in Time, left' \in Fault,
         deployment' = deployment
  PROVE  GoodStep
<1> USE DEF GatewayInv
<1>1. Stable /\ ServiceInv' /\ StoreInv'
  BY ServiceInvStep, StoreInvStep
<1>2. EnvInv'
  BY <1>1 DEF EnvInv, ArrivalsGrow, KnownKeys, Stable
<1>3. ThreadsInv'
  <2>1. PICK r \in ThreadRecord : /\ Locals(r, payments', outbox', arrivals')
                                  /\ thread' = [thread EXCEPT ![t] = r]
    BY DEF Moves
  <2>2. \A u \in Thread : thread'[u] = IF u = t THEN r ELSE thread[u]
    BY <2>1 DEF ThreadsInv
  <2>3. \A u \in Thread : Locals(thread[u], payments', outbox', arrivals')
    BY <1>1, LocalsLast DEF ThreadsInv, StoreInv
  <2>4. \A u \in Thread : Locals(thread'[u], payments', outbox', arrivals')
    BY <2>1, <2>2, <2>3
  <2>5. thread' \in [Thread -> ThreadRecord]
    BY <2>1 DEF ThreadsInv
  <2>6. QED
    BY <2>4, <2>5 DEF ThreadsInv
<1>4. QED
  BY <1>1, <1>2, <1>3 DEF GoodStep

\* Nothing arrived.
LEMMA NoArrivals == GatewayInv /\ arrivals' = arrivals => ArrivalsGrow
<1> SUFFICES ASSUME GatewayInv, arrivals' = arrivals
             PROVE  ArrivalsGrow
  OBVIOUS
<1>1. arrivals \in [Key -> 0..MaxArrivals] /\ 0..MaxArrivals \subseteq Nat
  BY GatewayAssumption DEF GatewayInv, EnvInv
<1>2. \A k \in Key : arrivals[k] \in Nat
  BY <1>1
<1>3. QED
  BY <1>1, <1>2 DEF ArrivalsGrow

\* The simulator did nothing.
LEMMA SimUnchanged == GatewayInv /\ UNCHANGED simVars => SimInv'
BY DEF GatewayInv, SimInv, simVars

\* A step that touches only its thread and the store.
LEMMA OnlyStoreKeeps ==
  ASSUME GatewayInv, ServiceStore, OnlyStore, NEW t \in Thread, Moves(t)
  PROVE  GoodStep
<1>1. ArrivalsGrow /\ SimInv'
  BY NoArrivals, SimUnchanged DEF OnlyStore
<1>2. /\ todo' \subseteq KnownKeys /\ clock' \in Time /\ left' \in Fault
      /\ deployment' = deployment
  BY DEF OnlyStore, GatewayInv, EnvInv
<1>3. QED
  BY <1>1, <1>2, StepKeeps

\* A thread as the invariant knows it.
LEMMA ThreadKnown ==
  ASSUME GatewayInv, NEW t \in Thread
  PROVE  /\ thread[t] \in ThreadRecord
         /\ Locals(thread[t], payments, outbox, arrivals)
BY DEF GatewayInv, ThreadsInv

\* What it counts on after the store call.
LEMMA ThreadKnownAfter ==
  ASSUME GatewayInv, ServiceStore, ArrivalsGrow, NEW t \in Thread
  PROVE  Locals(thread[t], payments', outbox', arrivals')
BY ThreadKnown, ServiceInvStep, LocalsLast DEF GatewayInv, StoreInv

\* Idle is a record of locals.
LEMMA IdleType == Idle \in ThreadRecord /\ Idle.pc = "idle"
BY GatewayAssumption DEF Idle, ThreadRecord, Pc

\* A handler that answers its client keeps no locals.
LEMMA FinishMoves == ASSUME NEW t \in Thread, Finish(t) PROVE Moves(t)
<1>1. Locals(Idle, payments', outbox', arrivals')
  BY IdleType, FreeLocals
<1>2. QED
  BY <1>1, IdleType DEF Finish, Moves

\* The records a phase or the head of the publishing loop starts with.
LEMMA PhaseRecord ==
  ASSUME NEW pc \in {"fetch", "poll", "expire", "reconcile"}, NEW now \in Time
  PROVE  LET r == [Idle EXCEPT !.pc = pc, !.now = now]
         IN  r \in ThreadRecord /\ r.pc = pc
BY IdleType DEF ThreadRecord, Pc

\* Nor does the sweeper between two of its phases.
LEMMA PhaseMoves ==
  ASSUME GatewayInv, NEW pc \in {"poll", "expire", "reconcile"}, Phase(pc)
  PROVE  Moves(Sweeper)
<1> DEFINE r == [Idle EXCEPT !.pc = pc, !.now = thread[Sweeper].now]
<1>1. thread[Sweeper].now \in Time
  BY ThreadKnown DEF Thread, ThreadRecord
<1>2. r \in ThreadRecord /\ r.pc = pc
  BY <1>1, PhaseRecord
<1>3. thread' = [thread EXCEPT ![Sweeper] = r]
  BY DEF Phase
<1> HIDE DEF r
<1>4. Locals(r, payments', outbox', arrivals')
  BY <1>2, FreeLocals
<1>5. QED
  BY <1>2, <1>3, <1>4 DEF Moves

\* The publishing loop ends.
LEMMA EndPublishMoves ==
  ASSUME GatewayInv, NEW t \in Thread, EndPublish(t) PROVE Moves(t)
BY PhaseMoves, FinishMoves DEF EndPublish

\* The reconciliation of one payment ends.
LEMMA EndReconcileMoves ==
  ASSUME GatewayInv, NEW t \in Thread, EndReconcile(t) PROVE Moves(t)
BY PhaseMoves, FinishMoves DEF EndReconcile

\* The publishing loop goes round.
LEMMA FetchAgainMoves ==
  ASSUME GatewayInv, NEW t \in Thread, FetchAgain(t) PROVE Moves(t)
<1> DEFINE r == [thread[t] EXCEPT !.pc = "fetch", !.entry = 0, !.reply = None]
<1>1. thread' = [thread EXCEPT ![t] = r]
  BY DEF FetchAgain
<1>2. r \in ThreadRecord /\ r.pc = "fetch"
  BY ThreadKnown DEF ThreadRecord, Pc
<1> HIDE DEF r
<1>3. Locals(r, payments', outbox', arrivals')
  BY <1>2, FreeLocals
<1>4. QED
  BY <1>1, <1>2, <1>3 DEF Moves

\* A thread that goes on with the locals it has.
LEMMA GotoRecord ==
  ASSUME GatewayInv, NEW t \in Thread, NEW pc \in Pc, Goto(t, pc)
  PROVE  LET r == [thread[t] EXCEPT !.pc = pc]
         IN  /\ r \in ThreadRecord /\ thread' = [thread EXCEPT ![t] = r]
             /\ r.pc = pc /\ r.key = thread[t].key /\ r.message = thread[t].message
             /\ r.entry = thread[t].entry /\ r.reply = thread[t].reply
             /\ r.now = thread[t].now
BY ThreadKnown DEF ThreadRecord, Goto

\* A thread goes to the head of the publishing loop.
LEMMA GotoFreeMoves ==
  ASSUME GatewayInv, NEW t \in Thread, Goto(t, "fetch") PROVE Moves(t)
<1> DEFINE r == [thread[t] EXCEPT !.pc = "fetch"]
<1>1. r \in ThreadRecord /\ thread' = [thread EXCEPT ![t] = r] /\ r.pc = "fetch"
  <2>1. "fetch" \in Pc
    BY DEF Pc
  <2>2. QED
    BY <2>1, GotoRecord
<1> HIDE DEF r
<1>2. Locals(r, payments', outbox', arrivals')
  BY <1>1, FreeLocals
<1>3. QED
  BY <1>1, <1>2 DEF Moves

\* A thread that does nothing.
LEMMA StayMoves ==
  ASSUME GatewayInv, ServiceStore, ArrivalsGrow, UNCHANGED thread, NEW t \in Thread
  PROVE  Moves(t)
<1>1. thread' = [thread EXCEPT ![t] = thread[t]]
  BY DEF GatewayInv, ThreadsInv
<1>2. QED
  BY <1>1, ThreadKnown, ThreadKnownAfter DEF Moves

-----------------------------------------------------------------------------
(* submit.                                                                 *)

\* A step that leaves the store alone.
LEMMA QuietStore == UNCHANGED storeVars => ServiceStore
BY DEF ServiceStore

\* An append the service may try, whether the store accepts it or not.
LEMMA TryAppendServes ==
  ASSUME NEW k \in Key, NEW e \in AppendedEvent, TryAppend(k, e),
         e.kind # "QuerySent", e.kind = "Published" => MayRecordPublished(k),
         e.kind = "AdviceReceived" => MayRecordAdvice(k, e.status)
  PROVE  ServiceStore
BY DEF TryAppend, ServiceStore, ServiceCall, AppendCall

\* submit creates the payment.
LEMMA StartSubmitKeeps ==
  ASSUME GatewayInv, NEW h \in Handler, NEW k \in Key, NEW m \in Message,
         NEW now \in Time, StartSubmit(h, k, m, now)
  PROVE  GoodStep
<1> DEFINE r == [Idle EXCEPT !.pc = "validate", !.key = k, !.message = m, !.now = now]
<1>1. h \in Thread
  BY DEF Thread
<1>2. ServiceStore /\ OnlyStore
  BY DEF StartSubmit, ServiceStore, ServiceCall
<1>3. thread' = [thread EXCEPT ![h] = r]
  BY DEF StartSubmit
<1>4. r \in ThreadRecord /\ r.pc = "validate" /\ r.key = k /\ r.message = m
  BY IdleType DEF ThreadRecord, Pc
<1>5. payments'[k] = NewPayment(m) /\ NewPayment(m) # None /\ NewPayment(m).message = m
  BY NewPaymentEffect, NewPaymentHold, RecordIsKnown
     DEF StartSubmit, Create, GatewayInv, StoreInv, StoreTypeOK
<1> HIDE DEF r
<1>6. Locals(r, payments', outbox', arrivals')
  BY <1>4, <1>5, SubmitLocals DEF Submitting
<1>7. Moves(h)
  BY <1>3, <1>4, <1>6 DEF Moves
<1>8. QED
  BY <1>1, <1>2, <1>7, OnlyStoreKeeps

\* A submission that goes on is still about the payment it created.
LEMMA SubmitGoesOn ==
  ASSUME GatewayInv, NEW t \in Thread, ServiceStore, ArrivalsGrow,
         thread[t].pc \in Submitting, NEW pc \in Submitting, Goto(t, pc)
  PROVE  Moves(t)
<1> DEFINE r == [thread[t] EXCEPT !.pc = pc]
<1>0. pc \in Pc
  BY DEF Submitting, Pc
<1>1. /\ r \in ThreadRecord /\ thread' = [thread EXCEPT ![t] = r]
      /\ r.pc = pc /\ r.key = thread[t].key /\ r.message = thread[t].message
  BY <1>0, GotoRecord
<1>2. /\ thread[t].key \in Key /\ payments'[thread[t].key] # None
      /\ thread[t].message = payments'[thread[t].key].message
  BY ThreadKnownAfter DEF Locals, Submitting, Working
<1> HIDE DEF r
<1>3. Locals(r, payments', outbox', arrivals')
  BY <1>1, <1>2, SubmitLocals
<1>4. QED
  BY <1>1, <1>3 DEF Moves

\* The rest of submit: validation, risk check, outbox.
LEMMA SubmitStepKeeps ==
  ASSUME GatewayInv, NEW h \in Handler, SubmitStep(h)
  PROVE  GoodStep
<1> DEFINE k == thread[h].key
           now == thread[h].now
<1>1. h \in Thread
  BY DEF Thread
<1>2. thread[h].pc \in Submitting =>
        /\ k \in Key /\ payments[k] # None
        /\ thread[h].message = payments[k].message
        /\ now \in Time
  BY <1>1, ThreadKnown DEF Locals, Submitting, Working, ThreadRecord
<1>3. CASE Validate(h)
  <2>1. k \in Key /\ OnlyStore /\ ArrivalsGrow /\ thread[h].pc \in Submitting
    BY <1>2, <1>3, NoArrivals DEF Validate, At, Submitting, OnlyStore
  <2>2. CASE AppendEvent(k, Validated) /\ Goto(h, "risk")
    <3>1. ServiceStore
      <4>1. Validated \in AppendedEvent /\ Validated.kind = "Validated"
        BY DEF AppendedEvent, Validated
      <4>2. TryAppend(k, Validated)
        BY <2>2 DEF TryAppend, AppendEvent
      <4>3. QED
        BY <2>1, <4>1, <4>2, TryAppendServes
    <3>2. Moves(h)
      BY <1>1, <2>1, <2>2, <3>1, SubmitGoesOn DEF Submitting
    <3>3. QED
      BY <1>1, <2>1, <3>1, <3>2, OnlyStoreKeeps
  <2>3. CASE UNCHANGED storeVars /\ Finish(h)
    BY <1>1, <2>1, <2>3, QuietStore, FinishMoves, OnlyStoreKeeps
  <2>4. QED
    BY <1>3, <2>2, <2>3 DEF Validate
<1>4. CASE PassUnchecked(h)
  <2>1. /\ OnlyStore /\ ArrivalsGrow /\ thread[h].pc \in Submitting
        /\ ServiceStore /\ Goto(h, "enqueue")
    BY <1>4, NoArrivals, QuietStore DEF PassUnchecked, At, Submitting, OnlyStore
  <2>2. Moves(h)
    BY <1>1, <2>1, SubmitGoesOn DEF Submitting
  <2>3. QED
    BY <1>1, <2>1, <2>2, OnlyStoreKeeps
<1>5. ASSUME NEW o \in {"allow", "refuse"}, thread[h].pc \in Submitting,
             TryAppend(k, RiskChecked(o, now))
      PROVE  ServiceStore
  <2>1. /\ RiskChecked(o, now) \in AppendedEvent
        /\ RiskChecked(o, now).kind = "RiskChecked"
    BY <1>2, <1>5 DEF AppendedEvent, RiskChecked
  <2>2. QED
    BY <1>2, <1>5, <2>1, TryAppendServes
<1>6. CASE Allow(h)
  <2>1. OnlyStore /\ ArrivalsGrow /\ thread[h].pc \in Submitting
    BY <1>6, NoArrivals DEF Allow, At, Submitting, OnlyStore
  <2>2. ServiceStore
    BY <1>5, <1>6, <2>1 DEF Allow
  <2>3. Goto(h, "enqueue") \/ Finish(h)
    BY <1>6 DEF Allow
  <2>4. Moves(h)
    BY <1>1, <2>1, <2>2, <2>3, SubmitGoesOn, FinishMoves DEF Submitting
  <2>5. QED
    BY <1>1, <2>1, <2>2, <2>4, OnlyStoreKeeps
<1>7. CASE Hold(h)
  <2>1. OnlyStore /\ Finish(h) /\ thread[h].pc \in Submitting
    BY <1>7 DEF Hold, At, Submitting
  <2>2. ServiceStore
    BY <1>2, <1>7, <2>1, QuietStore DEF Hold, ServiceStore, ServiceCall
  <2>3. QED
    BY <1>1, <2>1, <2>2, FinishMoves, OnlyStoreKeeps
<1>8. CASE Refuse(h)
  <2>1. OnlyStore /\ Finish(h) /\ thread[h].pc \in Submitting
    BY <1>8 DEF Refuse, At, Submitting
  <2>2. ServiceStore
    BY <1>5, <1>8, <2>1 DEF Refuse
  <2>3. QED
    BY <1>1, <2>1, <2>2, FinishMoves, OnlyStoreKeeps
<1>9. CASE CommitToOutbox(h)
  <2>1. OnlyStore /\ thread[h].pc \in Submitting
    BY <1>9 DEF CommitToOutbox, At, Submitting
  <2>2. CASE SubmitToOutbox(k, thread[h].message) /\ Goto(h, "fetch")
    <3>1. ServiceStore
      BY <1>2, <2>1, <2>2 DEF ServiceStore, ServiceCall
    <3>2. Moves(h)
      BY <1>1, <2>2, GotoFreeMoves
    <3>3. QED
      BY <1>1, <2>1, <3>1, <3>2, OnlyStoreKeeps
  <2>3. CASE UNCHANGED storeVars /\ Finish(h)
    BY <1>1, <2>1, <2>3, QuietStore, FinishMoves, OnlyStoreKeeps
  <2>4. QED
    BY <1>9, <2>2, <2>3 DEF CommitToOutbox
<1>10. QED
  BY <1>3, <1>4, <1>6, <1>7, <1>8, <1>9 DEF SubmitStep

-----------------------------------------------------------------------------
(* publish_pending.                                                        *)

\* next_unpublished returns an entry of the outbox, the oldest that waits.
LEMMA NextIsAnEntry ==
  ASSUME StoreTypeOK, NextUnpublished # 0
  PROVE  NextUnpublished \in DOMAIN outbox /\ NextUnpublished \in Nat
<1>1. DOMAIN outbox \subseteq Nat
  BY LenProperties DEF StoreTypeOK
<1>2. Unpublished \in SUBSET Nat /\ Unpublished # {}
  BY <1>1 DEF Unpublished, NextUnpublished
<1>3. \E i \in Unpublished : \A j \in Unpublished : i <= j
  BY <1>2, LeastMember
<1>4. NextUnpublished \in Unpublished
  BY <1>2, <1>3, Zenon DEF NextUnpublished
<1>5. QED
  BY <1>2, <1>4 DEF Unpublished

\* An arrival is of a queued payment, and counts.
LEMMA ArrivalRecorded ==
  ASSUME GatewayInv, NEW k \in Key, InOutbox(k), RecordArrival(k)
  PROVE  ArrivalsGrow /\ arrivals'[k] > 0
<1>1. arrivals \in [Key -> 0..MaxArrivals] /\ MaxArrivals \in Nat \ {0}
  BY GatewayAssumption DEF GatewayInv, EnvInv
<1>2. arrivals' = [arrivals EXCEPT ![k] = IF arrivals[k] < MaxArrivals THEN arrivals[k] + 1
                                          ELSE arrivals[k]]
  BY DEF RecordArrival
<1>3. arrivals[k] \in 0..MaxArrivals
  BY <1>1
<1>4. /\ arrivals' \in [Key -> 0..MaxArrivals]
      /\ arrivals'[k] > 0 /\ arrivals[k] <= arrivals'[k]
      /\ \A j \in Key \ {k} : arrivals'[j] = arrivals[j]
  BY <1>1, <1>2, <1>3
<1>5. \A j \in Key : arrivals[j] \in Nat
  BY <1>1
<1>6. QED
  BY <1>1, <1>4, <1>5 DEF ArrivalsGrow

\* The bound on losses goes down.
LEMMA SpendLosses == GatewayInv /\ Spend("losses") => left' \in Fault
BY DEF GatewayInv, EnvInv, Spend, Fault

\* So does the bound on refusals.
LEMMA SpendRefusals == GatewayInv /\ Spend("refusals") => left' \in Fault
BY DEF GatewayInv, EnvInv, Spend, Fault

\* So does the bound on crashes.
LEMMA SpendCrashes == GatewayInv /\ Spend("crashes") => left' \in Fault
BY DEF GatewayInv, EnvInv, Spend, Fault

\* So does the bound on restarts of the simulator.
LEMMA SpendRestarts == GatewayInv /\ Spend("restarts") => left' \in Fault
BY DEF GatewayInv, EnvInv, Spend, Fault

\* The environment's part of the invariant, by itself.
LEMMA EnvKnown ==
  GatewayInv => /\ todo \subseteq KnownKeys /\ clock \in Time /\ left \in Fault
                /\ StoreTypeOK
BY DEF GatewayInv, EnvInv, StoreInv

\* The entry a publishing thread works on.
LEMMA HandedEntry ==
  ASSUME GatewayInv, NEW t \in Thread, thread[t].pc \in Handing
  PROVE  LET i == thread[t].entry
         IN  /\ i \in DOMAIN outbox
             /\ outbox[i].key \in Key /\ outbox[i].message \in Message
             /\ InOutbox(outbox[i].key) /\ thread[t].now \in Time
<1>1. thread[t].entry \in DOMAIN outbox /\ thread[t].now \in Time
  BY ThreadKnown DEF Locals, ThreadRecord
<1>2. QED
  BY <1>1, EnvKnown, StoredKinds DEF InOutbox

\* next_unpublished: the thread takes an entry, or the loop ends.
LEMMA FetchEntryKeeps ==
  ASSUME GatewayInv, NEW t \in Thread, FetchEntry(t)
  PROVE  GoodStep
<1>1. OnlyStore /\ UNCHANGED storeVars /\ ServiceStore
  BY QuietStore DEF FetchEntry
<1>2. CASE EndPublish(t)
  BY <1>1, <1>2, EndPublishMoves, OnlyStoreKeeps
<1>3. CASE NextUnpublished # 0
             /\ thread' = [thread EXCEPT ![t].pc = "send", ![t].entry = NextUnpublished]
  <2> DEFINE i == NextUnpublished
             r == [thread[t] EXCEPT !.pc = "send", !.entry = i]
  <2>1. i \in DOMAIN outbox /\ i \in Nat
    BY <1>3, EnvKnown, NextIsAnEntry
  <2> HIDE DEF i
  <2>2. thread' = [thread EXCEPT ![t] = r]
    BY <1>3 DEF i
  <2>3. r \in ThreadRecord /\ r.pc = "send" /\ r.entry = i
    BY <2>1, ThreadKnown DEF ThreadRecord, Pc
  <2> HIDE DEF r
  <2>4. r.entry \in DOMAIN outbox'
    BY <1>1, <2>1, <2>3 DEF storeVars
  <2>5. Locals(r, payments', outbox', arrivals')
    BY <2>3, <2>4, SendLocals
  <2>6. Moves(t)
    BY <2>2, <2>3, <2>5 DEF Moves
  <2>7. QED
    BY <1>1, <2>6, OnlyStoreKeeps
<1>4. QED
  BY <1>2, <1>3 DEF FetchEntry

\* The port hands the message to the service, once the thread has sent it.
LEMMA SendArrives ==
  ASSUME GatewayInv, NEW t \in Thread, At(t, "send"),
         HandlePacs008(outbox[thread[t].entry].message, deployment.transport),
         RecordArrival(outbox[thread[t].entry].key)
  PROVE  SimInv' /\ ArrivalsGrow /\ arrivals'[outbox[thread[t].entry].key] > 0
<1>1. thread[t].pc \in Handing
  BY DEF At, Handing
<1>2. SimInv'
  BY <1>1, HandedEntry, Pacs008Tells DEF GatewayInv
<1>3. ArrivalsGrow /\ arrivals'[outbox[thread[t].entry].key] > 0
  BY <1>1, HandedEntry, ArrivalRecorded
<1>4. QED
  BY <1>2, <1>3

\* The exchange on the port, in each way it can end.
LEMMA SendKeeps ==
  ASSUME GatewayInv, NEW t \in Thread,
         SendAnswered(t) \/ SendUnanswered(t) \/ SendLost(t) \/ SendRefused(t)
  PROVE  GoodStep
<1> DEFINE i == thread[t].entry
           e == outbox[i]
<1>1. /\ UNCHANGED storeVars /\ UNCHANGED todo /\ UNCHANGED clock
      /\ UNCHANGED deployment /\ At(t, "send")
  BY DEF SendAnswered, SendUnanswered, SendLost, SendRefused
<1>2. ServiceStore /\ todo' \subseteq KnownKeys /\ clock' \in Time /\ outbox' = outbox
  BY <1>1, QuietStore, EnvKnown DEF storeVars
<1>3. thread[t].pc \in Handing
  BY <1>1 DEF At, Handing
<1>4. i \in DOMAIN outbox /\ e.message \in Message
  BY <1>3, HandedEntry
<1>5. CASE SendAnswered(t)
  <2> DEFINE reply == ReplyToPacs008(e.message, deployment.transport)
             r == [thread[t] EXCEPT !.pc = "mark", !.reply = reply]
  <2>1. SimInv' /\ ArrivalsGrow /\ arrivals'[e.key] > 0
    BY <1>1, <1>5, SendArrives DEF SendAnswered
  <2>2. reply \in Said(MsgId[e.message]) \cup {"Accepted"}
    BY <1>4, Pacs008Reply
  <2>3. thread' = [thread EXCEPT ![t] = r]
    BY <1>5 DEF SendAnswered
  <2>4. left' \in Fault
    BY <1>5, EnvKnown DEF SendAnswered, NoFault
  <2> HIDE DEF reply
  <2>5. reply \in AdviceStatus \cup {"Accepted", "Rejected"}
    BY <2>2, SaidAreAdvices
  <2>6. r \in ThreadRecord /\ r.pc = "mark" /\ r.reply = reply /\ r.entry = i
    BY <2>5, ThreadKnown DEF ThreadRecord, Pc, Reply
  <2> HIDE DEF r
  <2>7. /\ r.entry \in DOMAIN outbox' /\ arrivals'[outbox'[r.entry].key] > 0
        /\ r.reply \in Said(MsgId[outbox'[r.entry].message]) \cup {"Accepted", "Rejected"}
    BY <1>2, <1>4, <2>1, <2>2, <2>6
  <2>8. Locals(r, payments', outbox', arrivals')
    BY <2>6, <2>7, MarkLocals
  <2>9. Moves(t)
    BY <2>3, <2>6, <2>8 DEF Moves
  <2>10. QED
    BY <1>1, <1>2, <2>1, <2>4, <2>9, StepKeeps
<1>6. CASE SendUnanswered(t)
  <2>1. SimInv' /\ ArrivalsGrow
    BY <1>1, <1>6, SendArrives DEF SendUnanswered
  <2>2. Moves(t) /\ left' \in Fault
    BY <1>6, EndPublishMoves, SpendLosses DEF SendUnanswered
  <2>3. QED
    BY <1>1, <1>2, <2>1, <2>2, StepKeeps
<1>7. CASE SendLost(t)
  <2>1. SimInv' /\ ArrivalsGrow
    BY <1>7, SimUnchanged, NoArrivals DEF SendLost
  <2>2. Moves(t) /\ left' \in Fault
    BY <1>7, EndPublishMoves, SpendLosses DEF SendLost
  <2>3. QED
    BY <1>1, <1>2, <2>1, <2>2, StepKeeps
<1>8. CASE SendRefused(t)
  <2> DEFINE r == [thread[t] EXCEPT !.pc = "mark", !.reply = "Rejected"]
  <2>1. SimInv' /\ ArrivalsGrow /\ left' \in Fault
    BY <1>8, SimUnchanged, NoArrivals, SpendRefusals DEF SendRefused
  <2>2. thread' = [thread EXCEPT ![t] = r]
    BY <1>8 DEF SendRefused
  <2>3. r \in ThreadRecord /\ r.pc = "mark" /\ r.reply = "Rejected" /\ r.entry = i
    BY ThreadKnown DEF ThreadRecord, Pc, Reply
  <2> HIDE DEF r
  <2>4. /\ r.entry \in DOMAIN outbox'
        /\ r.reply \in Advice \cup {"Accepted", "Rejected"}
    BY <1>2, <1>4, <2>3
  <2>5. Locals(r, payments', outbox', arrivals')
    BY <2>3, <2>4, MarkLocals
  <2>6. Moves(t)
    BY <2>2, <2>3, <2>5 DEF Moves
  <2>7. QED
    BY <1>1, <1>2, <2>1, <2>6, StepKeeps
<1>9. QED
  BY <1>5, <1>6, <1>7, <1>8

\* mark_published.
LEMMA MarkEntryKeeps ==
  ASSUME GatewayInv, NEW t \in Thread, MarkEntry(t)
  PROVE  GoodStep
<1> DEFINE i == thread[t].entry
           r == [thread[t] EXCEPT !.pc = "publish"]
<1>1. /\ OnlyStore /\ MarkPublished(i) /\ i \in DOMAIN outbox /\ ServiceStore
      /\ ArrivalsGrow
  BY NoArrivals DEF MarkEntry, MarkPublished, ServiceStore, OnlyStore
<1>2. CASE thread[t].reply = "Rejected"
  BY <1>1, <1>2, FetchAgainMoves, OnlyStoreKeeps DEF MarkEntry
<1>3. CASE thread[t].reply # "Rejected"
  <2>1. /\ r \in ThreadRecord /\ thread' = [thread EXCEPT ![t] = r]
        /\ r.pc = "publish" /\ r.entry = i /\ r.reply = thread[t].reply
    <3>1. "publish" \in Pc
      BY DEF Pc
    <3>2. QED
      BY <1>3, <3>1, GotoRecord DEF MarkEntry
  <2>2. /\ i \in DOMAIN outbox' /\ arrivals'[outbox'[i].key] > 0
        /\ thread[t].reply \in Said(MsgId[outbox'[i].message])
                                \cup {"Accepted", "Rejected"}
    <3>1. Locals(thread[t], payments', outbox', arrivals') /\ thread[t].pc = "mark"
      BY <1>1, ThreadKnownAfter DEF MarkEntry, At
    <3>2. QED
      BY <1>3, <3>1 DEF Locals, Handing
  <2>3. outbox'[i].published
    BY <1>1, EnvKnown, MarkedIsPublished
  <2> HIDE DEF r
  <2>4. Locals(r, payments', outbox', arrivals')
    BY <2>1, <2>2, <2>3, PublishLocals
  <2>5. Moves(t)
    BY <2>1, <2>4 DEF Moves
  <2>6. QED
    BY <1>1, <2>5, OnlyStoreKeeps
<1>4. QED
  BY <1>2, <1>3

\* Published is appended after the handoff.
LEMMA RecordPublishedKeeps ==
  ASSUME GatewayInv, NEW t \in Thread, RecordPublished(t)
  PROVE  GoodStep
<1> DEFINE i == thread[t].entry
           k == outbox[i].key
           r == [thread[t] EXCEPT !.pc = "advise"]
<1>1. /\ OnlyStore /\ TryAppend(k, Published(thread[t].now)) /\ thread[t].pc = "publish"
      /\ ArrivalsGrow
  BY NoArrivals DEF RecordPublished, At, OnlyStore
<1>2. i \in DOMAIN outbox /\ k \in Key /\ thread[t].now \in Time
  BY <1>1, HandedEntry DEF Handing
<1>3. outbox[i].published /\ arrivals[k] > 0
  BY <1>1, ThreadKnown DEF Locals
<1>4. ServiceStore
  <2>1. MayRecordPublished(k)
    BY <1>2, <1>3 DEF MayRecordPublished
  <2>2. /\ Published(thread[t].now) \in AppendedEvent
        /\ Published(thread[t].now).kind = "Published"
    BY <1>2 DEF AppendedEvent, Published
  <2>3. QED
    BY <1>1, <1>2, <2>1, <2>2, TryAppendServes
<1>5. CASE FetchAgain(t)
  BY <1>1, <1>4, <1>5, FetchAgainMoves, OnlyStoreKeeps
<1>6. CASE thread[t].reply \in AdviceStatus /\ Goto(t, "advise")
  <2>1. /\ r \in ThreadRecord /\ thread' = [thread EXCEPT ![t] = r]
        /\ r.pc = "advise" /\ r.entry = i /\ r.reply = thread[t].reply
    <3>1. "advise" \in Pc
      BY DEF Pc
    <3>2. QED
      BY <1>6, <3>1, GotoRecord
  <2>2. /\ i \in DOMAIN outbox' /\ arrivals'[outbox'[i].key] > 0 /\ outbox'[i].published
        /\ thread[t].reply \in Said(MsgId[outbox'[i].message])
                                \cup {"Accepted", "Rejected"}
    <3>1. Locals(thread[t], payments', outbox', arrivals')
      BY <1>1, <1>4, ThreadKnownAfter
    <3>2. QED
      BY <1>1, <3>1 DEF Locals, Handing
  <2>3. thread[t].reply \in Said(MsgId[outbox'[i].message])
    BY <1>6, <2>2 DEF AdviceStatus
  <2> HIDE DEF r
  <2>4. Locals(r, payments', outbox', arrivals')
    BY <2>1, <2>2, <2>3, AdviseLocals
  <2>5. Moves(t)
    BY <2>1, <2>4 DEF Moves
  <2>6. QED
    BY <1>1, <1>4, <2>5, OnlyStoreKeeps
<1>7. QED
  BY <1>5, <1>6 DEF RecordPublished

\* What the service said of its message may be tried on any payment.
LEMMA TryAdviceServes ==
  ASSUME NEW k \in Key, NEW s \in Said(MsgId[payments[k].message]),
         TryAppend(k, AdviceReceived(s))
  PROVE  ServiceStore
<1>1. /\ AdviceReceived(s) \in AppendedEvent /\ AdviceReceived(s).kind = "AdviceReceived"
      /\ AdviceReceived(s).status = s
  BY SaidAreAdvices DEF AppendedEvent, AdviceReceived
<1>2. MayRecordAdvice(k, s)
  BY DEF MayRecordAdvice
<1>3. QED
  BY <1>1, <1>2, TryAppendServes

\* All of publish_pending.
LEMMA PublishStepKeeps ==
  ASSUME GatewayInv, NEW t \in Thread, PublishStep(t)
  PROVE  GoodStep
<1>1. CASE RecordSyncAdvice(t)
  <2> DEFINE k == outbox[thread[t].entry].key
  <2>1. /\ OnlyStore /\ FetchAgain(t) /\ thread[t].pc = "advise"
        /\ TryAppend(k, AdviceReceived(thread[t].reply))
    BY <1>1 DEF RecordSyncAdvice, At
  <2>2. k \in Key
    BY <2>1, HandedEntry DEF Handing
  <2>3. thread[t].reply \in Said(MsgId[payments[k].message])
    <3>1. thread[t].reply \in Said(MsgId[outbox[thread[t].entry].message])
      BY <2>1, ThreadKnown DEF Locals
    <3>2. outbox[thread[t].entry].message = payments[k].message
      BY <2>1, HandedEntry DEF Handing, GatewayInv, ServiceInv, SendsWhatWasAccepted
    <3>3. QED
      BY <3>1, <3>2
  <2>4. ServiceStore
    BY <2>1, <2>2, <2>3, TryAdviceServes
  <2>5. QED
    BY <2>1, <2>4, FetchAgainMoves, OnlyStoreKeeps
<1>2. QED
  BY <1>1, FetchEntryKeeps, SendKeeps, MarkEntryKeeps, RecordPublishedKeeps
     DEF PublishStep

-----------------------------------------------------------------------------
(* The sweeper's round.                                                    *)

\* The sweeper is one of the threads.
LEMMA SweeperIsAThread == Sweeper \in Thread
BY DEF Thread

\* A step of the sweeper that leaves the store and the simulator.
LEMMA QuietSweep ==
  ASSUME GatewayInv, UNCHANGED <<storeVars, simVars, clock, left, arrivals, deployment>>,
         todo' \subseteq KnownKeys, Moves(Sweeper)
  PROVE  GoodStep
<1>1. /\ ServiceStore /\ ArrivalsGrow /\ SimInv'
      /\ clock' \in Time /\ left' \in Fault /\ deployment' = deployment
  BY QuietStore, NoArrivals, SimUnchanged, EnvKnown
<1>2. QED
  BY <1>1, SweeperIsAThread, StepKeeps

\* The round starts.
LEMMA StartSweepKeeps ==
  ASSUME GatewayInv, StartSweep
  PROVE  GoodStep
<1> DEFINE r == [Idle EXCEPT !.pc = "fetch", !.now = clock]
<1>1. thread' = [thread EXCEPT ![Sweeper] = r] /\ OnlyStore /\ ServiceStore
  BY QuietStore DEF StartSweep
<1>2. r \in ThreadRecord /\ r.pc = "fetch"
  BY EnvKnown, PhaseRecord
<1> HIDE DEF r
<1>3. Locals(r, payments', outbox', arrivals')
  BY <1>2, FreeLocals
<1>4. Moves(Sweeper)
  BY <1>1, <1>2, <1>3 DEF Moves
<1>5. QED
  BY <1>1, <1>4, SweeperIsAThread, OnlyStoreKeeps

\* pump_advices: get, lose, correlate.
LEMMA PollKeeps ==
  ASSUME GatewayInv, PollEmpty \/ PollAdvice \/ PollLost \/ ApplyAdvice
  PROVE  GoodStep
<1>1. KnownKeys \subseteq Key
  BY DEF KnownKeys
<1>2. CASE PollEmpty
  <2>1. Moves(Sweeper) /\ todo' \subseteq KnownKeys
    BY <1>1, <1>2, PhaseMoves DEF PollEmpty, StartPass
  <2>2. QED
    BY <1>2, <2>1, QuietSweep DEF PollEmpty
<1>3. CASE PollAdvice
  <2> DEFINE a == Head(queue)
             r == [thread[Sweeper] EXCEPT !.pc = "correlate", !.about = a.id,
                                          !.reply = a.status]
  <2>1. /\ UNCHANGED <<storeVars, todo, clock, left, arrivals, deployment>>
        /\ HandleReceive
    BY <1>3 DEF PollAdvice
  <2>2. SimInv' /\ a \in Told
    BY <2>1, ReceiveTells DEF GatewayInv
  <2>3. thread' = [thread EXCEPT ![Sweeper] = r]
    BY <1>3 DEF PollAdvice
  <2> HIDE DEF a
  <2>4. a.id \in Id /\ a.status \in Advice /\ a.status \in AdviceStatus
    BY <2>2, SaidAreAdvices DEF Told, AdviceMessage
  <2>5. /\ r \in ThreadRecord /\ r.pc = "correlate"
        /\ r.reply = a.status /\ r.about = a.id
    BY <2>4, SweeperIsAThread, ThreadKnown DEF ThreadRecord, Pc, Reply
  <2> HIDE DEF r
  <2>6. Locals(r, payments', outbox', arrivals')
    BY <2>2, <2>5, CorrelateLocals DEF Told
  <2>7. Moves(Sweeper)
    BY <2>3, <2>5, <2>6 DEF Moves
  <2>8. /\ ServiceStore /\ ArrivalsGrow
        /\ todo' \subseteq KnownKeys /\ clock' \in Time /\ left' \in Fault
        /\ deployment' = deployment
    BY <2>1, QuietStore, NoArrivals, EnvKnown
  <2>9. QED
    BY <2>2, <2>7, <2>8, SweeperIsAThread, StepKeeps
<1>4. CASE PollLost
  <2>1. SimInv'
    BY <1>4, ReceiveTells, SimUnchanged DEF PollLost, GatewayInv
  <2>2. Moves(Sweeper) /\ todo' \subseteq KnownKeys
    BY <1>1, <1>4, PhaseMoves DEF PollLost, StartPass
  <2>3. /\ ServiceStore /\ ArrivalsGrow
        /\ clock' \in Time /\ left' \in Fault /\ deployment' = deployment
    BY <1>4, QuietStore, NoArrivals, EnvKnown, SpendLosses DEF PollLost
  <2>4. QED
    BY <2>1, <2>2, <2>3, SweeperIsAThread, StepKeeps
<1>5. CASE ApplyAdvice
  <2>1. OnlyStore /\ Phase("poll") /\ thread[Sweeper].pc = "correlate"
    BY <1>5 DEF ApplyAdvice, At
  <2> DEFINE about == {k \in KnownKeys :
                         MsgId[payments[k].message] = thread[Sweeper].about}
  <2>2. thread[Sweeper].reply \in Said(thread[Sweeper].about)
    BY <2>1, SweeperIsAThread, ThreadKnown DEF Locals
  <2>3. ServiceStore
    <3>1. CASE UNCHANGED storeVars
      BY <3>1, QuietStore
    <3>2. CASE \E k \in about : TryAppend(k, AdviceReceived(thread[Sweeper].reply))
      BY <1>1, <2>2, <3>2, TryAdviceServes
    <3>3. QED
      BY <1>5, <3>1, <3>2 DEF ApplyAdvice
  <2>4. QED
    BY <2>1, <2>3, PhaseMoves, SweeperIsAThread, OnlyStoreKeeps
<1>6. QED
  BY <1>2, <1>3, <1>4, <1>5

\* The clock and the dates of a payment are numbers.
LEMMA DatesAreNumbers ==
  ASSUME GatewayInv, NEW k \in Key, Known(k)
  PROVE  /\ payments[k] \in PaymentRecord
         /\ payments[k].heldAt # None => payments[k].heldAt \in Nat
         /\ payments[k].digest \in Digest \cup {None}
         /\ HoldMaxAge \in Nat
BY PaymentAssumption, GatewayAssumption, EnvKnown
   DEF StoreTypeOK, Known, PaymentRecord

\* A hold seen to be overdue is overdue for good: a dated hold keeps its date.
LEMMA OverdueLocals ==
  ASSUME GatewayInv, NEW k \in Key, StateOf(k) = "HELD", UNCHANGED storeVars,
         NEW r \in ThreadRecord, r.pc = "discard", r.key = k,
         Expired(payments[k], r.now)
  PROVE  Locals(r, payments', outbox', arrivals')
<1>1. Known(k)
  BY DEF StateOf
<1>2. payments[k].heldAt # None /\ payments[k].heldAt + HoldMaxAge < r.now
  BY DEF Expired
<1>3. r.now \in Nat
  BY PaymentAssumption DEF ThreadRecord
<1>4. r.now > payments[k].heldAt + HoldMaxAge
  BY <1>1, <1>2, <1>3, DatesAreNumbers
<1>5. payments' = payments
  BY DEF storeVars
<1>6. /\ r.key \in Key /\ payments'[r.key] # None /\ payments'[r.key].heldAt # None
      /\ r.now > payments'[r.key].heldAt + HoldMaxAge
  BY <1>1, <1>2, <1>4, <1>5 DEF Known
<1>7. QED
  BY <1>6, DiscardLocals

\* expire_holds looks at one key.
LEMMA ExpireScanKeeps ==
  ASSUME GatewayInv, NEW k \in Key, ExpireScan(k)
  PROVE  GoodStep
<1> DEFINE now == thread[Sweeper].now
           r == [thread[Sweeper] EXCEPT !.pc = "discard", !.key = k]
<1>1. /\ UNCHANGED <<storeVars, simVars, clock, left, arrivals, deployment>>
      /\ todo' \subseteq KnownKeys
  BY EnvKnown DEF ExpireScan
<1>2. ServiceStore /\ ArrivalsGrow
  BY <1>1, QuietStore, NoArrivals
<1>3. CASE StateOf(k) = "HELD" /\ Expired(payments[k], now)
  <2>1. thread' = [thread EXCEPT ![Sweeper] = r]
    BY <1>3 DEF ExpireScan
  <2>2. r \in ThreadRecord /\ r.pc = "discard" /\ r.key = k /\ r.now = now
    BY SweeperIsAThread, ThreadKnown DEF ThreadRecord, Pc
  <2> HIDE DEF r
  <2>3. Locals(r, payments', outbox', arrivals')
    BY <1>1, <1>3, <2>2, OverdueLocals
  <2>4. Moves(Sweeper)
    BY <2>1, <2>2, <2>3 DEF Moves
  <2>5. QED
    BY <1>1, <2>4, QuietSweep
<1>4. CASE ~(StateOf(k) = "HELD" /\ Expired(payments[k], now))
  <2>1. UNCHANGED thread
    BY <1>4 DEF ExpireScan
  <2>2. Moves(Sweeper)
    BY <1>2, <2>1, SweeperIsAThread, StayMoves
  <2>3. QED
    BY <1>1, <2>2, QuietSweep
<1>5. QED
  BY <1>3, <1>4

\* What reconciliation_action asks for is about a payment on record.
LEMMA ActionKinds ==
  ASSUME NEW k \in Key, NEW now
  PROVE  ReconciliationAction(payments[k], now) \in {"none", "declare", "ask"}
BY DEF ReconciliationAction

\* A scan finds what was known when its pass began: a payment is never
\* forgotten.
LEMMA ReconcileScanKeeps ==
  ASSUME GatewayInv, NEW k \in Key, ReconcileScan(k)
  PROVE  GoodStep
<1> DEFINE action == ReconciliationAction(payments[k], thread[Sweeper].now)
           r == [thread[Sweeper] EXCEPT !.pc = action, !.key = k]
<1>1. /\ UNCHANGED <<storeVars, simVars, clock, left, arrivals, deployment>>
      /\ todo' \subseteq KnownKeys /\ Known(k)
  BY EnvKnown DEF ReconcileScan, KnownKeys
<1>2. ServiceStore /\ ArrivalsGrow /\ payments' = payments
  BY <1>1, QuietStore, NoArrivals DEF storeVars
<1>3. CASE action # "none"
  <2>1. thread' = [thread EXCEPT ![Sweeper] = r]
    BY <1>3 DEF ReconcileScan
  <2>2. action \in {"declare", "ask"}
    BY <1>3, ActionKinds
  <2> HIDE DEF action
  <2>3. r \in ThreadRecord /\ r.pc = action /\ r.key = k
    BY <2>2, SweeperIsAThread, ThreadKnown DEF ThreadRecord, Pc
  <2> HIDE DEF r
  <2>4. r.pc \in {"declare", "ask"} /\ r.key \in Key /\ payments'[r.key] # None
    BY <1>1, <1>2, <2>2, <2>3 DEF Known
  <2>5. Locals(r, payments', outbox', arrivals')
    BY <2>4, KeyLocals
  <2>6. Moves(Sweeper)
    BY <2>1, <2>3, <2>5 DEF Moves
  <2>7. QED
    BY <1>1, <2>6, QuietSweep
<1>4. CASE action = "none"
  <2>1. UNCHANGED thread
    BY <1>4 DEF ReconcileScan
  <2>2. Moves(Sweeper)
    BY <1>2, <2>1, SweeperIsAThread, StayMoves
  <2>3. QED
    BY <1>1, <2>2, QuietSweep
<1>5. QED
  BY <1>3, <1>4

\* A pass over the keys ends.
LEMMA PassKeeps ==
  ASSUME GatewayInv, EndExpire \/ EndSweep
  PROVE  GoodStep
<1>1. CASE EndExpire
  <2>1. Moves(Sweeper) /\ todo' \subseteq KnownKeys
    BY <1>1, PhaseMoves DEF EndExpire, StartPass
  <2>2. QED
    BY <1>1, <2>1, QuietSweep DEF EndExpire
<1>2. CASE EndSweep
  BY <1>2, QuietStore, FinishMoves, SweeperIsAThread, OnlyStoreKeeps DEF EndSweep
<1>3. QED
  BY <1>1, <1>2

-----------------------------------------------------------------------------
(* Holds: expiry, release, cancellation.                                   *)

\* The payment a thread works on.
LEMMA WorkedOn ==
  ASSUME GatewayInv, NEW t \in Thread, thread[t].pc \in Working
  PROVE  thread[t].key \in Key /\ Known(thread[t].key) /\ thread[t].now \in Time
BY ThreadKnown DEF Locals, Known, ThreadRecord

\* An overdue hold is discarded, if it still is one.
LEMMA DiscardExpiredKeeps ==
  ASSUME GatewayInv, NEW t \in Thread, DiscardExpired(t)
  PROVE  GoodStep
<1> DEFINE k == thread[t].key
           now == thread[t].now
<1>1. OnlyStore /\ TryDiscard(k, "gateway", now) /\ thread[t].pc = "discard"
  BY DEF DiscardExpired, At
<1>2. k \in Key /\ now \in Time
  BY <1>1, WorkedOn DEF Working
<1>3. now > payments[k].heldAt + HoldMaxAge
  BY <1>1, ThreadKnown DEF Locals
<1>4. ServiceStore
  BY <1>1, <1>2, <1>3, QuietStore DEF TryDiscard, ServiceStore, ServiceCall, Actor
<1>5. Moves(t)
  BY PhaseMoves, FinishMoves DEF DiscardExpired
<1>6. QED
  BY <1>1, <1>4, <1>5, OnlyStoreKeeps

\* release loads the payment and decides.
LEMMA StartReleaseKeeps ==
  ASSUME GatewayInv, NEW h \in Handler, NEW k \in Key, NEW now \in Time,
         StartRelease(h, k, now)
  PROVE  GoodStep
<1> DEFINE p == payments[k]
           pc == IF Expired(p, now) THEN "discard" ELSE "release"
           r == [Idle EXCEPT !.pc = pc, !.key = k, !.digest = p.digest, !.now = now]
<1>1. /\ UNCHANGED storeVars /\ OnlyStore /\ ServiceStore /\ h \in Thread
      /\ StateOf(k) = "HELD" /\ (Expired(p, now) \/ p.digest # None)
      /\ payments' = payments
  BY QuietStore DEF StartRelease, Thread, storeVars
<1>2. thread' = [thread EXCEPT ![h] = r]
  BY DEF StartRelease
<1>3. Known(k)
  BY <1>1 DEF StateOf
<1>4. p.digest \in Digest \cup {None}
  BY <1>3, DatesAreNumbers
<1>5. pc \in Pc
  BY DEF Pc
<1>6. /\ r \in ThreadRecord /\ r.pc = pc /\ r.key = k /\ r.digest = p.digest
      /\ r.now = now
  <2> HIDE DEF pc, p
  <2>1. QED
    BY <1>4, <1>5, IdleType DEF ThreadRecord
<1> HIDE DEF r
<1>7. CASE Expired(p, now)
  <2>1. Locals(r, payments', outbox', arrivals')
    BY <1>1, <1>6, <1>7, OverdueLocals
  <2>2. QED
    BY <1>1, <1>2, <1>6, <2>1, OnlyStoreKeeps DEF Moves
<1>8. CASE ~Expired(p, now)
  <2>1. p.heldAt # None
    BY <1>1, <1>3 DEF GatewayInv, ServiceInv, HoldsOnRecord, HoldRecord, StateOf
  <2>2. now <= p.heldAt + HoldMaxAge
    <3>1. ~(p.heldAt + HoldMaxAge < now)
      BY <1>8, <2>1 DEF Expired
    <3>2. p.heldAt \in Nat /\ HoldMaxAge \in Nat /\ now \in Nat
      BY <1>3, <2>1, DatesAreNumbers, PaymentAssumption
    <3> HIDE DEF p
    <3>3. QED
      BY <3>1, <3>2
  <2>3. /\ r.pc = "release" /\ r.key \in Key /\ payments'[r.key] # None
        /\ r.digest \in Digest /\ payments'[r.key].heldAt # None
        /\ r.now <= payments'[r.key].heldAt + HoldMaxAge
    BY <1>1, <1>3, <1>4, <1>6, <1>8, <2>1, <2>2 DEF Known
  <2>4. Locals(r, payments', outbox', arrivals')
    BY <2>3, ReleaseLocals
  <2>5. QED
    BY <1>1, <1>2, <1>6, <2>4, OnlyStoreKeeps DEF Moves
<1>9. QED
  BY <1>7, <1>8

\* It acts on that decision in a later transaction.
LEMMA ReleaseKeeps ==
  ASSUME GatewayInv, NEW h \in Handler, Release(h)
  PROVE  GoodStep
<1> DEFINE k == thread[h].key
           d == thread[h].digest
           now == thread[h].now
<1>1. h \in Thread /\ OnlyStore /\ thread[h].pc = "release"
  BY DEF Release, Thread, At
<1>2. /\ k \in Key /\ d \in Digest /\ now \in Time
      /\ now <= payments[k].heldAt + HoldMaxAge
  BY <1>1, ThreadKnown, WorkedOn DEF Locals, Working
<1>3. CASE ReleaseParked(k, d, "operator", now) /\ Goto(h, "fetch")
  <2>1. ServiceStore
    BY <1>2, <1>3 DEF ServiceStore, ServiceCall
  <2>2. Moves(h)
    BY <1>1, <1>3, GotoFreeMoves
  <2>3. QED
    BY <1>1, <2>1, <2>2, OnlyStoreKeeps
<1>4. CASE UNCHANGED storeVars /\ Finish(h)
  BY <1>1, <1>4, QuietStore, FinishMoves, OnlyStoreKeeps
<1>5. QED
  BY <1>3, <1>4 DEF Release

\* A handler takes up a payment for a cancellation or a reconciliation.
LEMMA TakeUpKeeps ==
  ASSUME GatewayInv, NEW h \in Handler, NEW k \in Key, Known(k), NEW now \in Time,
         NEW pc \in {"cancel", "declare", "ask"},
         thread' = [thread EXCEPT ![h] = [Idle EXCEPT !.pc = pc, !.key = k, !.now = now]],
         UNCHANGED storeVars, OnlyStore
  PROVE  GoodStep
<1> DEFINE r == [Idle EXCEPT !.pc = pc, !.key = k, !.now = now]
<1>1. h \in Thread /\ ServiceStore /\ payments' = payments
  BY QuietStore DEF Thread, storeVars
<1>2. r \in ThreadRecord /\ r.pc = pc /\ r.key = k
  BY IdleType DEF ThreadRecord, Pc
<1>3. thread' = [thread EXCEPT ![h] = r]
  OBVIOUS
<1> HIDE DEF r
<1>4. r.pc \in {"cancel", "declare", "ask"} /\ r.key \in Key /\ payments'[r.key] # None
  BY <1>1, <1>2 DEF Known
<1>5. Locals(r, payments', outbox', arrivals')
  BY <1>4, KeyLocals
<1>6. Moves(h)
  BY <1>2, <1>3, <1>5 DEF Moves
<1>7. QED
  BY <1>1, <1>6, OnlyStoreKeeps

\* cancel acts on what it loaded.
LEMMA CancelKeeps ==
  ASSUME GatewayInv, NEW h \in Handler, Cancel(h)
  PROVE  GoodStep
<1> DEFINE k == thread[h].key
           now == thread[h].now
<1>1. h \in Thread /\ OnlyStore /\ Finish(h) /\ thread[h].pc = "cancel"
  BY DEF Cancel, Thread, At
<1>2. k \in Key /\ now \in Time
  BY <1>1, WorkedOn DEF Working
<1>3. ServiceStore
  BY <1>2, QuietStore DEF Cancel, TryDiscard, ServiceStore, ServiceCall, Actor
<1>4. QED
  BY <1>1, <1>3, FinishMoves, OnlyStoreKeeps

-----------------------------------------------------------------------------
(* reconcile.                                                              *)

\* reconcile loads the payment and decides.
LEMMA StartReconcileKeeps ==
  ASSUME GatewayInv, NEW h \in Handler, NEW k \in Key, NEW now \in Time,
         StartReconcile(h, k, now)
  PROVE  GoodStep
<1> DEFINE action == ReconciliationAction(payments[k], now)
<1>1. /\ Known(k) /\ UNCHANGED storeVars /\ OnlyStore /\ action # "none"
      /\ thread' = [thread EXCEPT ![h] = [Idle EXCEPT !.pc = action, !.key = k, !.now = now]]
  BY DEF StartReconcile
<1>2. action \in {"declare", "ask"}
  BY <1>1, ActionKinds
<1> HIDE DEF action
<1>3. QED
  BY <1>1, <1>2, TakeUpKeeps

\* cancel loads the payment.
LEMMA StartCancelKeeps ==
  ASSUME GatewayInv, NEW h \in Handler, NEW k \in Key, NEW now \in Time,
         StartCancel(h, k, now)
  PROVE  GoodStep
<1>1. /\ StateOf(k) = "HELD" /\ UNCHANGED storeVars /\ OnlyStore
      /\ thread' = [thread EXCEPT ![h] = [Idle EXCEPT !.pc = "cancel", !.key = k, !.now = now]]
  BY DEF StartCancel
<1>2. Known(k)
  BY <1>1 DEF StateOf
<1>3. QED
  BY <1>1, <1>2, TakeUpKeeps

\* A pacs.028 is answered.
LEMMA QueryAnsweredKeeps ==
  ASSUME GatewayInv, NEW t \in Thread, QueryAnswered(t)
  PROVE  GoodStep
<1> DEFINE k     == thread[t].key
           id    == MsgId[payments[k].message]
           reply == ReplyToPacs028(id, deployment.transport)
           r     == [thread[t] EXCEPT !.pc = "answer", !.reply = reply]
<1>1. /\ thread[t].pc = "query" /\ HandlePacs028(id, deployment.transport)
      /\ UNCHANGED <<storeVars, todo, clock, left, arrivals, deployment>>
  BY DEF QueryAnswered, At
<1>2. k \in Key /\ Known(k)
  BY <1>1, WorkedOn DEF Working
<1>3. id \in Id
  BY <1>2, DatesAreNumbers DEF PaymentRecord, Id
<1>4. SimInv' /\ reply \in Said(id) \cup {"Accepted", "Rejected"}
  BY <1>1, <1>3, Pacs028Tells DEF GatewayInv
<1>5. /\ ServiceStore /\ ArrivalsGrow /\ payments' = payments
      /\ todo' \subseteq KnownKeys /\ clock' \in Time /\ left' \in Fault
      /\ deployment' = deployment
  BY <1>1, QuietStore, NoArrivals, EnvKnown DEF storeVars
<1>6. CASE reply \in AdviceStatus
  <2>1. thread' = [thread EXCEPT ![t] = r]
    BY <1>6 DEF QueryAnswered
  <2> HIDE DEF reply
  <2>2. reply \in Said(id)
    BY <1>4, <1>6 DEF AdviceStatus
  <2>3. r \in ThreadRecord /\ r.pc = "answer" /\ r.reply = reply /\ r.key = k
    BY <1>6, ThreadKnown DEF ThreadRecord, Pc, Reply
  <2> HIDE DEF r
  <2>4. /\ r.key \in Key /\ payments'[r.key] # None
        /\ r.reply \in Said(MsgId[payments'[r.key].message])
    BY <1>2, <1>5, <2>2, <2>3 DEF Known
  <2>5. Locals(r, payments', outbox', arrivals')
    BY <2>3, <2>4, AnswerLocals
  <2>6. Moves(t)
    BY <2>1, <2>3, <2>5 DEF Moves
  <2>7. QED
    BY <1>4, <1>5, <2>6, StepKeeps
<1>7. CASE reply \notin AdviceStatus
  <2>1. EndReconcile(t)
    BY <1>7 DEF QueryAnswered
  <2>2. Moves(t)
    BY <2>1, EndReconcileMoves
  <2>3. QED
    BY <1>4, <1>5, <2>2, StepKeeps
<1>8. QED
  BY <1>6, <1>7

\* QuerySent is appended before the query goes out.
LEMMA RecordQueryKeeps ==
  ASSUME GatewayInv, NEW t \in Thread, RecordQuery(t)
  PROVE  GoodStep
<1> DEFINE k == thread[t].key
           e == QuerySent(thread[t].now)
           r == [thread[t] EXCEPT !.pc = "query"]
<1>1. OnlyStore /\ ArrivalsGrow /\ thread[t].pc = "ask"
  BY NoArrivals DEF RecordQuery, At, OnlyStore
<1>2. k \in Key /\ thread[t].now \in Time
  BY <1>1, WorkedOn DEF Working
<1>3. e \in AppendedEvent /\ e.kind = "QuerySent"
  BY <1>2 DEF AppendedEvent, QuerySent
<1>4. CASE AppendEvent(k, e) /\ payments[k].queries < MaxQueries /\ Goto(t, "query")
  <2>1. ServiceStore
    BY <1>2, <1>3, <1>4 DEF ServiceStore, ServiceCall, AppendCall
  <2>2. Locals(thread[t], payments', outbox', arrivals')
    BY <1>1, <2>1, ThreadKnownAfter
  <2>3. k \in Key /\ payments'[k] # None
    BY <1>1, <2>2 DEF Locals, Working
  <2>4. /\ r \in ThreadRecord /\ thread' = [thread EXCEPT ![t] = r]
        /\ r.pc = "query" /\ r.key = k
    <3>1. "query" \in Pc
      BY DEF Pc
    <3>2. QED
      BY <1>4, <3>1, GotoRecord
  <2> HIDE DEF r
  <2>5. Locals(r, payments', outbox', arrivals')
    BY <2>3, <2>4, KeyLocals
  <2>6. Moves(t)
    BY <2>4, <2>5 DEF Moves
  <2>7. QED
    BY <1>1, <2>1, <2>6, OnlyStoreKeeps
<1>5. CASE UNCHANGED storeVars /\ EndReconcile(t)
  BY <1>1, <1>5, QuietStore, EndReconcileMoves, OnlyStoreKeeps
<1>6. QED
  BY <1>4, <1>5 DEF RecordQuery, AppendEvent

\* All of reconcile.
LEMMA ReconcileStepKeeps ==
  ASSUME GatewayInv, NEW t \in Thread, ReconcileStep(t)
  PROVE  GoodStep
<1> DEFINE k == thread[t].key
<1>1. CASE DeclareTimeout(t)
  <2>1. OnlyStore /\ EndReconcile(t) /\ thread[t].pc = "declare"
    BY <1>1 DEF DeclareTimeout, At
  <2>2. k \in Key
    BY <2>1, WorkedOn DEF Working
  <2>3. TimeoutDeclared \in AppendedEvent /\ TimeoutDeclared.kind = "TimeoutDeclared"
    BY DEF AppendedEvent, TimeoutDeclared
  <2>4. ServiceStore
    BY <1>1, <2>2, <2>3, TryAppendServes DEF DeclareTimeout
  <2>5. QED
    BY <2>1, <2>4, EndReconcileMoves, OnlyStoreKeeps
<1>2. CASE QueryLost(t)
  <2>1. /\ ServiceStore /\ ArrivalsGrow /\ SimInv' /\ Moves(t)
        /\ todo' \subseteq KnownKeys /\ clock' \in Time /\ left' \in Fault
        /\ deployment' = deployment
    BY <1>2, QuietStore, NoArrivals, SimUnchanged, EndReconcileMoves, SpendLosses,
       EnvKnown DEF QueryLost
  <2>2. QED
    BY <2>1, StepKeeps
<1>3. CASE RecordAnswer(t)
  <2>1. OnlyStore /\ EndReconcile(t) /\ thread[t].pc = "answer"
    BY <1>3 DEF RecordAnswer, At
  <2>2. k \in Key /\ thread[t].reply \in Said(MsgId[payments[k].message])
    BY <2>1, ThreadKnown DEF Locals, Working
  <2>3. ServiceStore
    BY <1>3, <2>2, TryAdviceServes DEF RecordAnswer
  <2>4. QED
    BY <2>1, <2>3, EndReconcileMoves, OnlyStoreKeeps
<1>4. QED
  BY <1>1, <1>2, <1>3, QueryAnsweredKeeps, RecordQueryKeeps DEF ReconcileStep

-----------------------------------------------------------------------------
(* The environment.                                                        *)

\* The environment's steps leave the store, and the threads or none of them.
LEMMA EnvironmentKeeps ==
  ASSUME GatewayInv, Tick \/ PushAdvice \/ Crash \/ RestartSimulator
  PROVE  GoodStep
<1>1. CASE Tick
  <2>1. clock' \in Time
    <3>1. deployment.lastSecond \in Time /\ clock \in Time
      BY GatewayAssumption, EnvKnown DEF GatewayInv, EnvInv, Deployment
    <3>2. clock' = clock + 1 /\ clock < deployment.lastSecond
      BY <1>1 DEF Tick
    <3>3. clock' \in 0..deployment.lastSecond
      <4>1. clock \in Nat /\ deployment.lastSecond \in Nat
        BY <3>1, PaymentAssumption
      <4>2. QED
        BY <3>2, <4>1
    <3>4. QED
      BY <3>1, <3>3, GatewayAssumption
  <2>2. /\ ServiceStore /\ ArrivalsGrow /\ SimInv' /\ UNCHANGED thread
        /\ todo' \subseteq KnownKeys /\ left' \in Fault /\ deployment' = deployment
    BY <1>1, QuietStore, NoArrivals, SimUnchanged, EnvKnown DEF Tick
  <2>3. Moves(Sweeper)
    BY <2>2, SweeperIsAThread, StayMoves
  <2>4. QED
    BY <2>1, <2>2, <2>3, SweeperIsAThread, StepKeeps
<1>2. CASE PushAdvice
  <2>1. SimInv'
    BY <1>2, PushTells DEF PushAdvice, GatewayInv
  <2>2. /\ ServiceStore /\ ArrivalsGrow /\ UNCHANGED thread
        /\ todo' \subseteq KnownKeys /\ clock' \in Time /\ left' \in Fault
        /\ deployment' = deployment
    BY <1>2, QuietStore, NoArrivals, EnvKnown DEF PushAdvice
  <2>3. Moves(Sweeper)
    BY <2>2, SweeperIsAThread, StayMoves
  <2>4. QED
    BY <2>1, <2>2, <2>3, SweeperIsAThread, StepKeeps
<1>3. CASE RestartSimulator
  <2>1. SimInv'
    BY <1>3, RestartTells DEF RestartSimulator
  <2>2. /\ ServiceStore /\ ArrivalsGrow /\ UNCHANGED thread
        /\ todo' \subseteq KnownKeys /\ clock' \in Time /\ left' \in Fault
        /\ deployment' = deployment
    BY <1>3, QuietStore, NoArrivals, EnvKnown, SpendRestarts DEF RestartSimulator
  <2>3. Moves(Sweeper)
    BY <2>2, SweeperIsAThread, StayMoves
  <2>4. QED
    BY <2>1, <2>2, <2>3, SweeperIsAThread, StepKeeps
<1>4. CASE Crash
  <2>1. /\ ServiceStore /\ ArrivalsGrow /\ SimInv'
        /\ todo' = {} /\ clock' \in Time /\ left' \in Fault /\ deployment' = deployment
    BY <1>4, QuietStore, NoArrivals, SimUnchanged, EnvKnown, SpendCrashes DEF Crash
  <2>2. ServiceInv' /\ StoreInv'
    BY <2>1, ServiceInvStep, StoreInvStep DEF GatewayInv
  <2>3. EnvInv'
    BY <2>1 DEF GatewayInv, EnvInv, ArrivalsGrow
  <2>4. ThreadsInv'
    <3>1. thread' = [u \in Thread |-> Idle]
      BY <1>4 DEF Crash
    <3>2. Locals(Idle, payments', outbox', arrivals')
      BY IdleType, FreeLocals
    <3>3. QED
      BY <3>1, <3>2, IdleType DEF ThreadsInv
  <2>5. QED
    BY <2>1, <2>2, <2>3, <2>4 DEF GatewayInv, GoodStep
<1>5. QED
  BY <1>1, <1>2, <1>3, <1>4

-----------------------------------------------------------------------------
(* The invariant, and what follows from it.                                *)

\* Everything a handler does.
LEMMA HandlerKeeps ==
  ASSUME GatewayInv, NEW h \in Handler, ClientCall(h) \/ HandlerStep(h)
  PROVE  GoodStep
<1>1. h \in Thread
  BY DEF Thread
<1>2. CASE HandlerStep(h)
  BY <1>1, <1>2, SubmitStepKeeps, PublishStepKeeps, ReconcileStepKeeps, ReleaseKeeps,
     CancelKeeps, DiscardExpiredKeeps DEF HandlerStep
<1>3. CASE ClientCall(h)
  <2>1. PICK now \in Time :
          \/ \E r \in deployment.requests : StartSubmit(h, r[1], r[2], now)
          \/ \E k \in Key : \/ StartRelease(h, k, now)
                            \/ StartCancel(h, k, now)
                            \/ StartReconcile(h, k, now)
    BY <1>3 DEF ClientCall
  <2>2. CASE \E r \in deployment.requests : StartSubmit(h, r[1], r[2], now)
    <3>1. PICK r \in deployment.requests : StartSubmit(h, r[1], r[2], now)
      BY <2>2
    <3>2. deployment.requests \subseteq Key \X Message
      BY GatewayAssumption DEF GatewayInv, EnvInv, Deployment
    <3>3. r[1] \in Key /\ r[2] \in Message
      BY <3>2
    <3>4. QED
      BY <3>1, <3>3, StartSubmitKeeps
  <2>3. CASE \E k \in Key : \/ StartRelease(h, k, now)
                            \/ StartCancel(h, k, now)
                            \/ StartReconcile(h, k, now)
    BY <2>3, StartReleaseKeeps, StartCancelKeeps, StartReconcileKeeps
  <2>4. QED
    BY <2>1, <2>2, <2>3
<1>4. QED
  BY <1>2, <1>3

\* Everything the sweeper does.
LEMMA SweeperKeeps ==
  ASSUME GatewayInv, SweeperStep
  PROVE  GoodStep
BY SweeperIsAThread, StartSweepKeeps, PublishStepKeeps, PollKeeps, ExpireScanKeeps,
   ReconcileScanKeeps, DiscardExpiredKeeps, PassKeeps, ReconcileStepKeeps
   DEF SweeperStep

\* A stutter.
LEMMA GatewayStutters == GatewayInv /\ UNCHANGED vars => GoodStep
<1> SUFFICES ASSUME GatewayInv, UNCHANGED vars
             PROVE  GoodStep
  OBVIOUS
<1>1. /\ ServiceStore /\ ArrivalsGrow /\ SimInv' /\ UNCHANGED thread
      /\ todo' \subseteq KnownKeys /\ clock' \in Time /\ left' \in Fault
      /\ deployment' = deployment
  BY QuietStore, NoArrivals, SimUnchanged, EnvKnown DEF vars, storeVars, simVars
<1>2. Moves(Sweeper)
  BY <1>1, SweeperIsAThread, StayMoves
<1>3. QED
  BY <1>1, <1>2, SweeperIsAThread, StepKeeps

\* Every step keeps the invariant and makes one of the service's calls.
LEMMA EveryStepIsGood == GatewayInv /\ [Next]_vars => GoodStep
BY HandlerKeeps, SweeperKeeps, EnvironmentKeeps, GatewayStutters DEF Next
\* The invariant holds when the gateway starts on an empty database.
LEMMA GatewayStarts == Init => GatewayInv
<1> SUFFICES ASSUME Init
             PROVE  GatewayInv
  OBVIOUS
<1> USE DEF Init
<1>1. StoreInv
  <2>1. StoreTypeOK
    BY EmptySeq DEF StoreInit, StoreTypeOK
  <2>2. Agreement
    BY DEF StoreInit, Agreement, ParkedExactlyWhileHeld, QueuedExactlyWhenCleared,
           InOutbox, OneEntryPerPayment, HeldSendsOnlyWhatWasParked,
           UnjudgedIsNotHeld, StateOf, Known, Cleared
  <2>3. QED
    BY <2>1, <2>2 DEF StoreInv
<1>2. SimInv
  BY SimStartsTelling
<1>3. EnvInv
  <2>1. MaxArrivals \in Nat /\ 0 \in Time
    BY GatewayAssumption
  <2>2. deployment.faults \in Fault
    BY GatewayAssumption DEF Deployment
  <2>3. QED
    BY <2>1, <2>2 DEF EnvInv
<1>4. ThreadsInv
  <2>1. Locals(Idle, payments, outbox, arrivals)
    BY IdleType, FreeLocals
  <2>2. QED
    BY <2>1, IdleType DEF ThreadsInv
<1>5. ServiceInv
  <2>1. \A k \in Key : ~Known(k) /\ StateOf(k) = "ABSENT" /\ arrivals[k] = 0
                       /\ parked[k] = None
    BY DEF StoreInit, Known, StateOf
  <2>2. outbox = << >>
    BY DEF StoreInit
  <2>3. QED
    BY <2>1, <2>2
       DEF ServiceInv, SendsWhatWasAccepted, UnpublishedIsSubmitted, Unpublished,
           PublishedMeansArrived, ArrivedIsQueued, HoldsOnRecord, OutcomesOnRecord,
           Cleared
<1>6. QED
  BY <1>1, <1>2, <1>3, <1>4, <1>5 DEF GatewayInv

\* Whatever threads, faults and restarts interleave, the invariant holds.
THEOREM GatewayInvariant == Spec => []GatewayInv
<1>1. GatewayInv /\ [Next]_vars => GatewayInv'
  BY EveryStepIsGood DEF GoodStep
<1>2. QED
  BY <1>1, GatewayStarts, PTL DEF Spec

\* The variables keep their types.
THEOREM GatewayTypeCorrect == Spec => []TypeOK
<1>1. GatewayInv => TypeOK
  <2> SUFFICES ASSUME GatewayInv
               PROVE  TypeOK
    OBVIOUS
  <2>1. KnownKeys \subseteq Key
    BY DEF KnownKeys
  <2>2. QED
    BY <2>1, SimInvTypes DEF GatewayInv, StoreInv, ThreadsInv, EnvInv, TypeOK
<1>2. QED
  BY <1>1, GatewayInvariant, PTL

\* The threads of the service make only the calls Store describes, so what is
\* proved of the store holds of the gateway (service.rs over store.rs).
THEOREM GatewayImplementsStore == Spec => ImplementsStore
<1>1. Init => StoreInit
  BY DEF Init
<1>2. GatewayInv /\ [Next]_vars => [StoreNext]_storeVars
  BY EveryStepIsGood, ServiceIsACaller DEF GoodStep, GatewayInv
<1>3. QED
  BY <1>1, <1>2, GatewayInvariant, PTL DEF Spec, StoreSpec, ImplementsStore

\* So the gateway as a whole moves a payment only as Lifecycle promises.
THEOREM GatewayKeepsPromise == Spec => KeepsPromise
BY GatewayImplementsStore, StoreKeepsPromise, PTL DEF ImplementsStore

\* A call of the store leaves a final state as it is.
LEMMA StoreIsFinal ==
  ASSUME StoreInv, [StoreNext]_storeVars, NEW j \in Key, StateOf(j) \in Terminal
  PROVE  StateOf(j)' = StateOf(j)
<1>0. StoreTypeOK
  BY DEF StoreInv
<1>1. ASSUME NEW k \in Key, NEW m \in Message, Create(k, m)
      PROVE  StateOf(j)' = StateOf(j)
  <2>1. StateOf(k) = "ABSENT" /\ payments' = [payments EXCEPT ![k] = NewPayment(m)]
    BY <1>0, <1>1, StoredKinds DEF Create
  <2>2. j # k
    BY <2>1 DEF Terminal
  <2>3. QED
    BY <1>0, <2>1, <2>2, NewPaymentEffect, OnePaymentMoves
<1>2. ASSUME NEW k \in Key, NEW q \in PaymentRecord, k # j,
             payments' = [payments EXCEPT ![k] = q]
      PROVE  StateOf(j)' = StateOf(j)
  BY <1>0, <1>2, OnePaymentMoves
<1>3. ASSUME NEW k \in Key, NEW m \in Message, SubmitToOutbox(k, m)
      PROVE  StateOf(j)' = StateOf(j)
  <2>1. /\ payments[k] \in PaymentRecord /\ StateOf(k) = payments[k].state
        /\ Legal(payments[k], Submitted)
    BY <1>0, <1>3, StoredKinds DEF SubmitToOutbox, Accepts
  <2>2. After(payments[k], Submitted) \in PaymentRecord /\ StateOf(k) = "VALIDATED"
    BY <2>1, SubmittedEffect
  <2>3. k # j /\ payments' = [payments EXCEPT ![k] = After(payments[k], Submitted)]
    BY <1>3, <2>2 DEF Terminal, SubmitToOutbox
  <2>4. QED
    BY <1>2, <2>2, <2>3
<1>4. ASSUME NEW k \in Key, NEW e \in AppendedEvent, AppendCall(k, e)
      PROVE  StateOf(j)' = StateOf(j)
  <2> DEFINE q == After(payments[k], e)
  <2>1. /\ payments[k] \in PaymentRecord /\ StateOf(k) = payments[k].state
        /\ Legal(payments[k], e)
        /\ payments' = [payments EXCEPT ![k] = q]
    BY <1>0, <1>4, StoredKinds DEF AppendCall, AppendEvent, Accepts
  <2>2. /\ q \in PaymentRecord
        /\ payments[k].state \in Terminal => q.state = payments[k].state
    BY <2>1, AppendedEffect, AfterType, AppendedHistory
  <2> HIDE DEF q
  <2>3. CASE j = k
    BY <1>0, <2>1, <2>2, <2>3, OnePaymentMoves
  <2>4. CASE j # k
    BY <1>2, <2>1, <2>2, <2>4
  <2>5. QED
    BY <2>3, <2>4
<1>5. ASSUME NEW k \in Key, NEW m \in Message, NEW t \in Time, Park(k, m, t)
      PROVE  StateOf(j)' = StateOf(j)
  <2> DEFINE q == After(After(payments[k], RiskChecked("hold", t)), HoldParked(Sha256[m]))
  <2>1. /\ payments[k] \in PaymentRecord /\ StateOf(k) = payments[k].state
        /\ Legal(payments[k], RiskChecked("hold", t))
        /\ payments' = [payments EXCEPT ![k] = q]
    BY <1>0, <1>5, StoredKinds DEF Park, Accepts
  <2>2. q \in PaymentRecord /\ StateOf(k) = "VALIDATED"
    BY <2>1, ParkedEffect
  <2> HIDE DEF q
  <2>3. QED
    BY <1>2, <2>1, <2>2 DEF Terminal
<1>6. ASSUME NEW k \in Key, NEW d \in Digest, NEW b \in Actor, NEW t \in Time,
             ReleaseParked(k, d, b, t)
      PROVE  StateOf(j)' = StateOf(j)
  <2> DEFINE q == After(payments[k], HoldReleased(d, b, t))
  <2>1. /\ payments[k] \in PaymentRecord /\ StateOf(k) = payments[k].state
        /\ Legal(payments[k], HoldReleased(d, b, t))
        /\ payments' = [payments EXCEPT ![k] = q]
    BY <1>0, <1>6, StoredKinds DEF ReleaseParked, Accepts
  <2>2. q \in PaymentRecord /\ StateOf(k) = "HELD"
    BY <2>1, ReleasedEffect
  <2> HIDE DEF q
  <2>3. QED
    BY <1>2, <2>1, <2>2 DEF Terminal
<1>7. ASSUME NEW k \in Key, NEW b \in Actor, NEW t \in Time, DiscardParked(k, b, t)
      PROVE  StateOf(j)' = StateOf(j)
  <2> DEFINE q == After(payments[k], HoldCancelled(b, t))
  <2>1. /\ payments[k] \in PaymentRecord /\ StateOf(k) = payments[k].state
        /\ Legal(payments[k], HoldCancelled(b, t))
        /\ payments' = [payments EXCEPT ![k] = q]
    BY <1>0, <1>7, StoredKinds DEF DiscardParked, Accepts
  <2>2. q \in PaymentRecord /\ StateOf(k) = "HELD"
    BY <2>1, CancelledEffect
  <2> HIDE DEF q
  <2>3. QED
    BY <1>2, <2>1, <2>2 DEF Terminal
<1>8. CASE payments' = payments
  BY <1>8 DEF StateOf, Known
<1>9. QED
  BY <1>1, <1>3, <1>4, <1>5, <1>6, <1>7, <1>8
     DEF StoreNext, StoreCall, MarkPublished, storeVars

\* An outcome, a refusal or a cancellation on record is never revised
\* (Payment::apply), whatever comes late.
THEOREM OutcomesStayFinal == Spec => OutcomesAreFinal
<1>1. GatewayInv /\ [Next]_vars =>
        [\A k \in Key : StateOf(k) \in Terminal => StateOf(k)' = StateOf(k)]_vars
  <2> SUFFICES ASSUME GatewayInv, [Next]_vars, NEW k \in Key, StateOf(k) \in Terminal
               PROVE  StateOf(k)' = StateOf(k)
    OBVIOUS
  <2>1. StoreInv /\ [StoreNext]_storeVars
    BY EveryStepIsGood, ServiceIsACaller DEF GoodStep, GatewayInv
  <2>2. QED
    BY <2>1, StoreIsFinal
<1>2. QED
  BY <1>1, GatewayInvariant, PTL DEF Spec, OutcomesAreFinal

\* Nothing reaches the service of a payment that is not cleared: the arrived is
\* queued (ArrivedIsQueued), and the queued is cleared.
THEOREM OnlyClearedGoOut == Spec => []OnlyClearedReachTheWire
<1>1. GatewayInv => OnlyClearedReachTheWire
  BY DEF GatewayInv, StoreInv, Agreement, QueuedExactlyWhenCleared, ServiceInv,
         ArrivedIsQueued, OnlyClearedReachTheWire
<1>2. QED
  BY <1>1, GatewayInvariant, PTL

\* What is queued or parked is the message the payment was created with.
THEOREM AcceptedIsSent == Spec => []SendsWhatWasAccepted
<1>1. GatewayInv => SendsWhatWasAccepted
  BY DEF GatewayInv, ServiceInv
<1>2. QED
  BY <1>1, GatewayInvariant, PTL

\* Published is recorded only after the service got the message.
THEOREM PublishedHasArrived == Spec => []PublishedMeansArrived
<1>1. GatewayInv => PublishedMeansArrived
  BY DEF GatewayInv, ServiceInv
<1>2. QED
  BY <1>1, GatewayInvariant, PTL

\* Nothing overtakes the publisher that marks an entry.
THEOREM WaitingIsSubmitted == Spec => []UnpublishedIsSubmitted
<1>1. GatewayInv => UnpublishedIsSubmitted
  BY DEF GatewayInv, ServiceInv
<1>2. QED
  BY <1>1, GatewayInvariant, PTL

\* A release is recorded in time, an expiry only when the hold was overdue,
\* though both are decided on a payment read earlier (hold.rs).
THEOREM HoldsEndOnTime == Spec => []HoldsEndInTime
<1>1. GatewayInv => HoldsEndInTime
  BY DEF GatewayInv, ServiceInv, HoldsOnRecord, HoldRecord, HoldsEndInTime
<1>2. QED
  BY <1>1, GatewayInvariant, PTL

\* An outcome on record is one the service gave of this payment's message,
\* provided that no two messages share a message id (pump_advices correlates by
\* it: with a shared one the advice of another message can be applied).
THEOREM OutcomesAreTold ==
  ASSUME DistinctIds
  PROVE  Spec => []OutcomeIsTheServices
<1>1. ASSUME NEW m \in Message
      PROVE  Said(MsgId[m]) \subseteq Says(m)
  BY DEF Said
<1>2. ASSUME GatewayInv
      PROVE  OutcomeIsTheServices
  <2> SUFFICES ASSUME NEW k \in Key, Known(k)
               PROVE  LET told == Says(payments[k].message)
                      IN  /\ payments[k].state = "SETTLED"  => told \cap SettlesFunds # {}
                          /\ payments[k].state = "REJECTED" => "RJCT" \in told
    BY DEF OutcomeIsTheServices, StateOf, Says
  <2>1. payments[k].message \in Message
    BY <1>2, StoredKinds DEF GatewayInv, StoreInv, Known, PaymentRecord
  <2>2. OutcomeRecord(payments[k])
    BY <1>2 DEF GatewayInv, ServiceInv, OutcomesOnRecord
  <2>3. QED
    BY <1>1, <2>1, <2>2 DEF OutcomeRecord
<1>3. QED
  BY <1>2, GatewayInvariant, PTL
=============================================================================

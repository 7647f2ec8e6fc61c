------------------------------ MODULE Gateway ------------------------------
(***************************************************************************)
(* fednow-gateway at work (gateway/src/service.rs, http.rs, main.rs):      *)
(* threads that serve northbound requests and the sweeper thread, over the *)
(* store and the southbound port to the simulator.                         *)
(*                                                                         *)
(* A thread's step is one store transaction or one exchange on the port,   *)
(* so threads interleave exactly where the code releases the store's       *)
(* mutex.  A request reaching the simulator and its response reaching the  *)
(* thread are different steps.  The gateway may crash between any two      *)
(* steps: threads vanish, the store stays.                                 *)
(***************************************************************************)
EXTENDS Store, Simulator

CONSTANTS
  Handler,        \* threads serving northbound requests
  Sweeper,        \* the background thread of main.rs
  Invalid,        \* messages that fail the FedNow profile
  Deployments,    \* the settings a gateway may be started with
  TimeoutSecs, BackoffSecs, HoldMaxAge,
  MaxArrivals     \* the count of arrivals of a message stops here

\* Bounds on transport failures, on transport-level rejections (status >= 400),
\* on gateway crashes and on simulator restarts.
Fault == [losses : Nat, refusals : Nat, crashes : Nat, restarts : Nat]

\* How main.rs wires a gateway, and what it meets: the southbound port, the
\* outcomes its risk check can have (None: no provider), the submissions and
\* the other requests clients make, the last second of the clock, the faults.
Deployment ==
  [transport  : {"http", "mq"},
   verdicts   : SUBSET (RiskOutcome \cup {None}),
   requests   : SUBSET (Key \X Message),
   operations : SUBSET {"release", "cancel", "reconcile"},
   lastSecond : Time,
   faults     : Fault]

ASSUME GatewayAssumption ==
  /\ Sweeper \notin Handler
  /\ Invalid \subseteq Message
  /\ Deployments \subseteq Deployment
  /\ {TimeoutSecs, BackoffSecs, HoldMaxAge} \subseteq Nat
  /\ MaxArrivals \in Nat \ {0}
  /\ 0 \in Time /\ \A t \in Time : 0..t \subseteq Time
  /\ \A m \in Message : \A i \in DOMAIN LedgerEntry(m) : LedgerEntry(m)[i] \in Advice
  /\ None \notin Key \cup Id

Thread == Handler \cup {Sweeper}

VARIABLES
  deployment,     \* the settings this gateway was started with
  thread,         \* what each thread is doing, and the locals it still needs
  todo,           \* keys the sweeper's current pass has yet to look at
  clock,          \* Unix time
  left,           \* what is left of each fault bound
  arrivals        \* history: how often each key's pacs.008 reached the service

vars == <<payments, outbox, parked, ledger, queue, pushes,
          deployment, thread, todo, clock, left, arrivals>>

Pc == {"idle",
       "validate", "risk", "enqueue",                      \* submit
       "fetch", "send", "mark", "publish", "advise",       \* publish_pending
       "poll", "correlate",                                \* pump_advices
       "expire", "discard",                                \* expire_holds
       "release", "cancel",
       "reconcile", "declare", "ask", "query", "answer"}   \* reconcile

Reply == AdviceStatus \cup {"Accepted", "Rejected"}

\* key and message: the payment being worked on; now: the clock as the thread
\* read it when it started; entry: the outbox id taken from next_unpublished;
\* reply: what the port returned; about: the message id an advice refers to.
ThreadRecord ==
  [pc      : Pc,
   key     : Key \cup {None},
   message : Message \cup {None},
   digest  : Digest \cup {None},
   now     : Time,
   entry   : Nat,
   reply   : Reply \cup {None},
   about   : Id \cup {None}]

Idle == [pc |-> "idle", key |-> None, message |-> None, digest |-> None,
         now |-> 0, entry |-> 0, reply |-> None, about |-> None]

\* The types of every variable.
TypeOK ==
  /\ StoreTypeOK
  /\ SimTypeOK
  /\ deployment \in Deployments
  /\ thread \in [Thread -> ThreadRecord]
  /\ todo \subseteq Key
  /\ clock \in Time
  /\ left \in Fault
  /\ arrivals \in [Key -> 0..MaxArrivals]

Init ==
  /\ StoreInit
  /\ SimInit
  /\ deployment \in Deployments
  /\ thread = [t \in Thread |-> Idle]
  /\ todo = {}
  /\ clock = 0
  /\ left = deployment.faults
  /\ arrivals = [k \in Key |-> 0]

-----------------------------------------------------------------------------
(* Small steps shared by the operations.                                   *)

At(t, pc) == thread[t].pc = pc

Goto(t, pc) == thread' = [thread EXCEPT ![t].pc = pc]

\* A handler answers its client and forgets its locals.
Finish(h) == thread' = [thread EXCEPT ![h] = Idle]

\* The sweeper moves to its next phase, keeping only the time it started at.
Phase(pc) == thread' = [thread EXCEPT ![Sweeper] =
                          [Idle EXCEPT !.pc = pc, !.now = thread[Sweeper].now]]

MutAppendBlindly(k, e) ==
  /\ payments' = [payments EXCEPT ![k] = After(@, e)]
  /\ UNCHANGED <<outbox, parked>>

\* append whose result the caller ignores, or turns into its own error.
TryAppend(k, e) == IF Accepts(k, e) THEN AppendEvent(k, e) ELSE UNCHANGED storeVars

Spend(fault) == left[fault] > 0 /\ left' = [left EXCEPT ![fault] = @ - 1]

NoFault == UNCHANGED left

\* A step that touches nothing outside the thread and the store.
OnlyStore == UNCHANGED <<simVars, todo, clock, left, arrivals, deployment>>

KnownKeys == {k \in Key : Known(k)}

-----------------------------------------------------------------------------
(* submit                                                                  *)

MutResubmit(h, k, m, now) ==
  /\ At(h, "idle")
  /\ IF Known(k) THEN UNCHANGED storeVars ELSE Create(k, m)
  /\ thread' = [thread EXCEPT ![h] =
                  [Idle EXCEPT !.pc = "validate", !.key = k,
                               !.message = m, !.now = now]]
  /\ OnlyStore

\* A known key is answered with the payment as it stands: nothing happens.
StartSubmit(h, k, m, now) ==
  /\ At(h, "idle")
  /\ Create(k, m)
  /\ thread' = [thread EXCEPT ![h] =
                  [Idle EXCEPT !.pc = "validate", !.key = k,
                               !.message = m, !.now = now]]
  /\ OnlyStore

\* An invalid message leaves its payment CREATED and its key used up.
Validate(h) ==
  LET k == thread[h].key
  IN  /\ At(h, "validate")
      /\ IF thread[h].message \notin Invalid /\ Accepts(k, Validated)
         THEN AppendEvent(k, Validated) /\ Goto(h, "risk")
         ELSE UNCHANGED storeVars /\ Finish(h)
      /\ OnlyStore

\* No verdict: no provider, nothing is recorded.
PassUnchecked(h) ==
  /\ At(h, "risk") /\ None \in deployment.verdicts
  /\ Goto(h, "enqueue")
  /\ UNCHANGED storeVars /\ OnlyStore

Allow(h) ==
  LET e == RiskChecked("allow", thread[h].now)
  IN  /\ At(h, "risk") /\ "allow" \in deployment.verdicts
      /\ TryAppend(thread[h].key, e)
      /\ IF Accepts(thread[h].key, e) THEN Goto(h, "enqueue") ELSE Finish(h)
      /\ OnlyStore

Hold(h) ==
  /\ At(h, "risk") /\ "hold" \in deployment.verdicts
  /\ IF Accepts(thread[h].key, RiskChecked("hold", thread[h].now))
     THEN Park(thread[h].key, thread[h].message, thread[h].now)
     ELSE UNCHANGED storeVars
  /\ Finish(h)
  /\ OnlyStore

Refuse(h) ==
  /\ At(h, "risk") /\ "refuse" \in deployment.verdicts
  /\ TryAppend(thread[h].key, RiskChecked("refuse", thread[h].now))
  /\ Finish(h)
  /\ OnlyStore

CommitToOutbox(h) ==
  LET k == thread[h].key
  IN  /\ At(h, "enqueue")
      /\ IF Accepts(k, Submitted) /\ ~InOutbox(k)
         THEN SubmitToOutbox(k, thread[h].message) /\ Goto(h, "fetch")
         ELSE UNCHANGED storeVars /\ Finish(h)
      /\ OnlyStore

-----------------------------------------------------------------------------
(* publish_pending, run by submitters, releasers and the sweeper.          *)

\* The loop ends: a handler returns, the sweeper goes on to its advices.
EndPublish(t) == IF t = Sweeper THEN Phase("poll") ELSE Finish(t)

\* Back to the head of the loop.
FetchAgain(t) == thread' = [thread EXCEPT ![t].pc = "fetch", ![t].entry = 0,
                                          ![t].reply = None]

FetchEntry(t) ==
  /\ At(t, "fetch")
  /\ IF NextUnpublished = 0 THEN EndPublish(t)
     ELSE thread' = [thread EXCEPT ![t].pc = "send", ![t].entry = NextUnpublished]
  /\ UNCHANGED storeVars /\ OnlyStore

RecordArrival(k) ==
  arrivals' = [arrivals EXCEPT ![k] = IF @ < MaxArrivals THEN @ + 1 ELSE @]

\* The message reaches the service and the response comes back.
SendAnswered(t) ==
  LET e == outbox[thread[t].entry]
  IN  /\ At(t, "send")
      /\ HandlePacs008(e.message, deployment.transport)
      /\ RecordArrival(e.key)
      /\ thread' = [thread EXCEPT ![t].pc = "mark",
                                  ![t].reply = ReplyToPacs008(e.message, deployment.transport)]
      /\ NoFault
      /\ UNCHANGED <<storeVars, todo, clock, deployment>>

\* The message reaches the service, the response does not come back: the port
\* reports a transport failure, which ends the loop.
SendUnanswered(t) ==
  LET e == outbox[thread[t].entry]
  IN  /\ At(t, "send")
      /\ HandlePacs008(e.message, deployment.transport)
      /\ RecordArrival(e.key)
      /\ EndPublish(t)
      /\ Spend("losses")
      /\ UNCHANGED <<storeVars, todo, clock, deployment>>

MutLossIsSuccess(t) ==
  /\ At(t, "send")
  /\ thread' = [thread EXCEPT ![t].pc = "mark", ![t].reply = "Accepted"]
  /\ Spend("losses")
  /\ UNCHANGED <<storeVars, simVars, todo, clock, arrivals, deployment>>

\* The message does not reach the service.
SendLost(t) ==
  /\ At(t, "send")
  /\ EndPublish(t)
  /\ Spend("losses")
  /\ UNCHANGED <<storeVars, simVars, todo, clock, arrivals, deployment>>

\* Something on the way refuses the message (status >= 400).
SendRefused(t) ==
  /\ At(t, "send")
  /\ thread' = [thread EXCEPT ![t].pc = "mark", ![t].reply = "Rejected"]
  /\ Spend("refusals")
  /\ UNCHANGED <<storeVars, simVars, todo, clock, arrivals, deployment>>

\* mark_published, whether the message was handed off or refused.
MarkEntry(t) ==
  /\ At(t, "mark")
  /\ MarkPublished(thread[t].entry)
  /\ IF thread[t].reply = "Rejected" THEN FetchAgain(t) ELSE Goto(t, "publish")
  /\ OnlyStore

RecordPublished(t) ==
  /\ At(t, "publish")
  /\ TryAppend(outbox[thread[t].entry].key, Published(thread[t].now))
  /\ IF thread[t].reply \in AdviceStatus THEN Goto(t, "advise") ELSE FetchAgain(t)
  /\ OnlyStore

RecordSyncAdvice(t) ==
  /\ At(t, "advise")
  /\ TryAppend(outbox[thread[t].entry].key, AdviceReceived(thread[t].reply))
  /\ FetchAgain(t)
  /\ OnlyStore

-----------------------------------------------------------------------------
(* The sweeper's round: publish, pump, expire, reconcile.                  *)

MutSweepWithoutPublishing ==
  /\ At(Sweeper, "idle")
  /\ thread' = [thread EXCEPT ![Sweeper] = [Idle EXCEPT !.pc = "poll", !.now = clock]]
  /\ UNCHANGED storeVars /\ OnlyStore

StartSweep ==
  /\ At(Sweeper, "idle")
  /\ thread' = [thread EXCEPT ![Sweeper] = [Idle EXCEPT !.pc = "fetch", !.now = clock]]
  /\ UNCHANGED storeVars /\ OnlyStore

\* A pass over keys(): the key set is read once, then each key is loaded.
StartPass(pc) == Phase(pc) /\ todo' = KnownKeys

\* poll_advice returns nothing: the queue is empty, or the transport has none.
PollEmpty ==
  /\ At(Sweeper, "poll")
  /\ deployment.transport = "http" \/ queue = << >>
  /\ StartPass("expire")
  /\ UNCHANGED <<storeVars, simVars, clock, left, arrivals, deployment>>

PollAdvice ==
  /\ At(Sweeper, "poll") /\ deployment.transport = "mq"
  /\ HandleReceive
  /\ thread' = [thread EXCEPT ![Sweeper].pc = "correlate",
                              ![Sweeper].about = Head(queue).id,
                              ![Sweeper].reply = Head(queue).status]
  /\ UNCHANGED <<storeVars, todo, clock, left, arrivals, deployment>>

\* The get fails, before or after the simulator took the advice off its queue:
\* in the latter case the advice is gone.  Either way the loop ends.
PollLost ==
  /\ At(Sweeper, "poll") /\ deployment.transport = "mq"
  /\ HandleReceive \/ UNCHANGED simVars
  /\ StartPass("expire")
  /\ Spend("losses")
  /\ UNCHANGED <<storeVars, clock, arrivals, deployment>>

MutApplyToAnyone ==
  /\ At(Sweeper, "correlate")
  /\ \E k \in KnownKeys : TryAppend(k, AdviceReceived(thread[Sweeper].reply))
  /\ Phase("poll")
  /\ OnlyStore

\* apply_advice_envelope: some payment with that message id gets the advice;
\* no such payment, or one that accepts no advice, and it is dropped.
ApplyAdvice ==
  LET about == {k \in KnownKeys : MsgId[payments[k].message] = thread[Sweeper].about}
  IN  /\ At(Sweeper, "correlate")
      /\ \/ about = {} /\ UNCHANGED storeVars
         \/ \E k \in about : TryAppend(k, AdviceReceived(thread[Sweeper].reply))
      /\ Phase("poll")
      /\ OnlyStore

MutExpiredAtMaxAge(p, now) == p.heldAt # None /\ p.heldAt + HoldMaxAge <= now

MutExpiredBackwards(p, now) == p.heldAt # None /\ now < p.heldAt + HoldMaxAge

Expired(p, now) == p.heldAt # None /\ p.heldAt + HoldMaxAge < now

\* expire_holds loads one key; an overdue hold is discarded in a later step.
ExpireScan(k) ==
  /\ At(Sweeper, "expire") /\ k \in todo
  /\ todo' = todo \ {k}
  /\ IF StateOf(k) = "HELD" /\ Expired(payments[k], thread[Sweeper].now)
     THEN thread' = [thread EXCEPT ![Sweeper].pc = "discard", ![Sweeper].key = k]
     ELSE UNCHANGED thread
  /\ UNCHANGED <<storeVars, simVars, clock, left, arrivals, deployment>>

EndExpire ==
  /\ At(Sweeper, "expire") /\ todo = {}
  /\ StartPass("reconcile")
  /\ UNCHANGED <<storeVars, simVars, clock, left, arrivals, deployment>>

TryDiscard(k, by, now) ==
  IF Accepts(k, HoldCancelled(by, now)) THEN DiscardParked(k, by, now)
  ELSE UNCHANGED storeVars

\* expire: on behalf of the sweeper, or of a release that came too late.
DiscardExpired(t) ==
  /\ At(t, "discard")
  /\ TryDiscard(thread[t].key, "gateway", thread[t].now)
  /\ IF t = Sweeper THEN Phase("expire") ELSE Finish(t)
  /\ OnlyStore

-----------------------------------------------------------------------------
(* release and cancel: the payment is loaded, then resolved in a later     *)
(* transaction.                                                            *)

StartRelease(h, k, now) ==
  LET p == payments[k]
  IN  /\ At(h, "idle") /\ "release" \in deployment.operations
      /\ StateOf(k) = "HELD"
      /\ Expired(p, now) \/ p.digest # None
      /\ thread' = [thread EXCEPT ![h] =
                      [Idle EXCEPT !.pc = IF Expired(p, now) THEN "discard" ELSE "release",
                                   !.key = k, !.digest = p.digest, !.now = now]]
      /\ UNCHANGED storeVars /\ OnlyStore

Release(h) ==
  LET k == thread[h].key
      d == thread[h].digest
      now == thread[h].now
  IN  /\ At(h, "release")
      /\ IF /\ parked[k] # None /\ Sha256[parked[k]] = d
            /\ ~InOutbox(k) /\ Accepts(k, HoldReleased(d, "operator", now))
         THEN ReleaseParked(k, d, "operator", now) /\ Goto(h, "fetch")
         ELSE UNCHANGED storeVars /\ Finish(h)
      /\ OnlyStore

StartCancel(h, k, now) ==
  /\ At(h, "idle") /\ "cancel" \in deployment.operations
  /\ StateOf(k) = "HELD"
  /\ thread' = [thread EXCEPT ![h] = [Idle EXCEPT !.pc = "cancel", !.key = k, !.now = now]]
  /\ UNCHANGED storeVars /\ OnlyStore

Cancel(h) ==
  /\ At(h, "cancel")
  /\ TryDiscard(thread[h].key, "operator", thread[h].now)
  /\ Finish(h)
  /\ OnlyStore

-----------------------------------------------------------------------------
(* reconcile, for a client or for the sweeper.                             *)

MutNeverFirstQuery(p, now) ==
  CASE p.state = "ACK_PENDING" /\ p.publishedAt # None
         /\ p.publishedAt + TimeoutSecs <= now             -> "declare"
    [] p.state = "TIMEOUT_UNRESOLVED" /\ p.lastQueryAt # None
         /\ p.lastQueryAt + BackoffSecs <= now             -> "ask"
    [] OTHER                                               -> "none"

\* reconciliation_action, as the pc of what it asks for.
ReconciliationAction(p, now) ==
  CASE p.state = "ACK_PENDING" /\ p.publishedAt # None
         /\ p.publishedAt + TimeoutSecs <= now             -> "declare"
    [] p.state = "TIMEOUT_UNRESOLVED"
         /\ (p.lastQueryAt = None
               \/ p.lastQueryAt + BackoffSecs <= now)       -> "ask"
    [] OTHER                                               -> "none"

\* The action is decided on a loaded copy; what it records is appended later.
StartReconcile(h, k, now) ==
  LET action == ReconciliationAction(payments[k], now)
  IN  /\ At(h, "idle") /\ "reconcile" \in deployment.operations
      /\ Known(k) /\ action # "none"
      /\ thread' = [thread EXCEPT ![h] = [Idle EXCEPT !.pc = action, !.key = k, !.now = now]]
      /\ UNCHANGED storeVars /\ OnlyStore

ReconcileScan(k) ==
  LET action == ReconciliationAction(payments[k], thread[Sweeper].now)
  IN  /\ At(Sweeper, "reconcile") /\ k \in todo
      /\ todo' = todo \ {k}
      /\ IF action = "none" THEN UNCHANGED thread
         ELSE thread' = [thread EXCEPT ![Sweeper].pc = action, ![Sweeper].key = k]
      /\ UNCHANGED <<storeVars, simVars, clock, left, arrivals, deployment>>

EndSweep ==
  /\ At(Sweeper, "reconcile") /\ todo = {}
  /\ Finish(Sweeper)
  /\ UNCHANGED storeVars /\ OnlyStore

EndReconcile(t) == IF t = Sweeper THEN Phase("reconcile") ELSE Finish(t)

DeclareTimeout(t) ==
  /\ At(t, "declare")
  /\ TryAppend(thread[t].key, TimeoutDeclared)
  /\ EndReconcile(t)
  /\ OnlyStore

\* QuerySent is appended before the pacs.028 goes out.  MaxQueries bounds the
\* model, not the code.
RecordQuery(t) ==
  LET k == thread[t].key
      e == QuerySent(thread[t].now)
  IN  /\ At(t, "ask")
      /\ IF Accepts(k, e) /\ payments[k].queries < MaxQueries
         THEN AppendEvent(k, e) /\ Goto(t, "query")
         ELSE UNCHANGED storeVars /\ EndReconcile(t)
      /\ OnlyStore

\* Only an advice in the response matters here: over MQ it comes by the queue,
\* and an unknown payment is a failure like any other.
QueryAnswered(t) ==
  LET id    == MsgId[payments[thread[t].key].message]
      reply == ReplyToPacs028(id, deployment.transport)
  IN  /\ At(t, "query")
      /\ HandlePacs028(id, deployment.transport)
      /\ IF reply \in AdviceStatus
         THEN thread' = [thread EXCEPT ![t].pc = "answer", ![t].reply = reply]
         ELSE EndReconcile(t)
      /\ UNCHANGED <<storeVars, todo, clock, left, arrivals, deployment>>

QueryLost(t) ==
  /\ At(t, "query")
  /\ EndReconcile(t)
  /\ Spend("losses")
  /\ UNCHANGED <<storeVars, simVars, todo, clock, arrivals, deployment>>

RecordAnswer(t) ==
  /\ At(t, "answer")
  /\ TryAppend(thread[t].key, AdviceReceived(thread[t].reply))
  /\ EndReconcile(t)
  /\ OnlyStore

-----------------------------------------------------------------------------
(* The environment.                                                        *)

Tick ==
  /\ clock < deployment.lastSecond
  /\ clock' = clock + 1
  /\ UNCHANGED <<storeVars, simVars, thread, todo, left, arrivals, deployment>>

PushAdvice ==
  /\ \E a \in AdviceMessage : Push(a)
  /\ UNCHANGED <<storeVars, thread, todo, clock, left, arrivals, deployment>>

\* The gateway process dies and starts again on the same database.
Crash ==
  /\ thread' = [t \in Thread |-> Idle]
  /\ todo' = {}
  /\ Spend("crashes")
  /\ UNCHANGED <<storeVars, simVars, clock, arrivals, deployment>>

RestartSimulator ==
  /\ SimRestart
  /\ Spend("restarts")
  /\ UNCHANGED <<storeVars, thread, todo, clock, arrivals, deployment>>

-----------------------------------------------------------------------------
SubmitStep(h) ==
  \/ Validate(h) \/ PassUnchecked(h) \/ Allow(h) \/ Hold(h) \/ Refuse(h)
  \/ CommitToOutbox(h)

PublishStep(t) ==
  \/ FetchEntry(t)
  \/ SendAnswered(t) \/ SendUnanswered(t) \/ SendLost(t) \/ SendRefused(t)
  \/ MarkEntry(t) \/ RecordPublished(t) \/ RecordSyncAdvice(t)

ReconcileStep(t) ==
  \/ DeclareTimeout(t) \/ RecordQuery(t)
  \/ QueryAnswered(t) \/ QueryLost(t) \/ RecordAnswer(t)

HandlerStep(h) ==
  \/ SubmitStep(h) \/ PublishStep(h) \/ ReconcileStep(h)
  \/ Release(h) \/ Cancel(h) \/ DiscardExpired(h)

SweeperStep ==
  \/ StartSweep \/ PublishStep(Sweeper)
  \/ PollEmpty \/ PollAdvice \/ PollLost \/ ApplyAdvice
  \/ \E k \in Key : ExpireScan(k) \/ ReconcileScan(k)
  \/ DiscardExpired(Sweeper) \/ EndExpire
  \/ ReconcileStep(Sweeper) \/ EndSweep

\* now is the clock as the handler read it, some time before it got to load
\* the payment.
ClientCall(h) ==
  \E now \in Time :
    /\ now <= clock
    /\ \/ \E r \in deployment.requests : StartSubmit(h, r[1], r[2], now)
       \/ \E k \in Key : \/ StartRelease(h, k, now)
                        \/ StartCancel(h, k, now)
                        \/ StartReconcile(h, k, now)

Next ==
  \/ \E h \in Handler : ClientCall(h) \/ HandlerStep(h)
  \/ SweeperStep
  \/ Tick \/ PushAdvice \/ Crash \/ RestartSimulator

Spec == Init /\ [][Next]_vars

\* Threads keep running, the ports answer or fail, time passes, and a task the
\* simulator spawned wakes up.  Faults are never promised.
Fairness ==
  /\ \A h \in Handler : WF_vars(HandlerStep(h))
  /\ WF_vars(SweeperStep)
  /\ WF_vars(Tick)
  /\ WF_vars(PushAdvice)

FairSpec == Spec /\ Fairness
=============================================================================

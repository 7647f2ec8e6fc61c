# A verification of fednow-oss

TLA+ modules, TLC configurations and TLAPS proofs for
[fednow-oss](../src/README.md), an open-source gateway for the FedNow instant
payment service. Paths below are relative to the repository.

## The system

| Component | State it keeps | Operations | Works with |
|---|---|---|---|
| Payment aggregate (`gateway/src/payment.rs`) | one record folded from an event stream | `new`, `apply`, `replay` | the store replays it before every append |
| Store (`store.rs`, `sqlite.rs`) | event streams, outbox, parked messages; one mutex, one transaction per call | `create`, `append`, `submit_to_outbox`, `next_unpublished`, `mark_published`, `park`, `release_parked`, `discard_parked`, reads | called by the service |
| Service (`service.rs`) | none of its own | `submit`, `publish_pending`, `pump_advices`, `reconcile`, `reconcile_all`, `release`, `cancel`, `expire_holds`, views | store, risk gate, southbound port |
| Reconciliation policy (`reconciler.rs`) | none | `reconciliation_action` | service |
| Hold policy (`hold.rs`) | maximum age | `is_expired`, `expires_at` | service, views |
| Risk gate (`risk.rs`) | slots in use | `check`: a worker thread per check, a budget, a fail policy | service, provider |
| Southbound ports (`southbound.rs`) | none | `submit`, `query`, `poll_advice` over HTTP or the MQ REST API | service, simulator |
| HTTP API (`http.rs`) | none | routes and their access, one blocking task per request | clients, keys, service |
| API keys (`auth.rs`) | three lists of key digests, fixed at start | parsing at start, `identify`, the `authorize` middleware | every route |
| Process (`main.rs`) | none | start-up, the sweeper thread | everything |
| Simulator (`simulator/src/lib.rs`) | ledger of advices, receive queues, spawned tasks; in memory | pacs.008 and pacs.028 handlers, queue put and get | far side of the ports |
| Core (`core/src`) | none | builders, parsers, envelopes, validation | all |
| Conformance kit, SDKs, fuzz targets, site | none | vectors, thin HTTP clients | core, HTTP API |

Behaviours that are hard here. Handlers and the sweeper run `publish_pending`,
`reconcile` and `expire_holds` over the same payments at the same time; every one of
them loads, decides, talks to the port and then appends, in separate store
transactions. Messages may arrive although the exchange failed. Advices come
in a response, on a queue (with a destructive get), or as the answer to a
query, in any order and more than once. The process can die between any two
transactions. Clocks are read once and used later. A risk check is given up by its
caller while the provider still works on it, and the two share a slot. A request
is judged by the middleware and carried out later on another thread. What one
side writes, another checks by rules of its own. `PROJECT.json` lists these
hazards one by one, at the line where each bites.

What makes each part correct: the aggregate must be a function of its stream,
decide each payment once, and be moved by the first decisive advice; the store
must keep state, outbox and parked message in step, and never clear anything
but what was accepted or parked; the service must send only cleared messages,
record a handoff only after it happened, never attribute an outcome to the
wrong payment, resolve what it queued and end what it holds; the risk gate must
never stop for good, never clear a payment nobody cleared, and never take one
payment's verdict for another's; the keys must keep two people apart and name
the one who acted; the messages must keep the profile their reader checks, and
arrive with the meaning they were sent with.

## The modules

| Module | Models | Kind |
|---|---|---|
| `Payment` | `payment.rs`: states, events, `Legal` (the arms of `apply`), `After` (their effect) | constant operators |
| `EventStream` | one stream and its replay (`append_to`) | state machine over one payment |
| `Lifecycle` | what a client is promised about a payment | abstract specification |
| `Store` | `store.rs` and `sqlite.rs`: one action per mutating call | state machine; refines `Lifecycle` |
| `Simulator` | `simulator/src/lib.rs` seen from the port | actions, composed by `Gateway` |
| `Gateway` | `service.rs`, `reconciler.rs`, `hold.rs`, `southbound.rs`, `http.rs`, `main.rs` at work | composes `Store` and `Simulator`; refines `Store` |
| `GatewayProperties` | properties of `Gateway` | properties |
| `RiskGate` | `risk.rs`: callers, provider threads, the slot counter and the channels between them | state machine |
| `Access` | `auth.rs` and the routes of `http.rs`: configurations, the middleware, the handlers that act for the caller it found | state machine over several lives of the gateway |
| `Message` | `core/src`: builders, validators and the envelope of a credit transfer | constant operators |
| `Exchange` | the content of one payment's messages, from `SubmitBody` to `advice_from_pacs002`, through the simulator | state machine over one payment, on `Message` and `Payment` |
| `Store_proofs` | types and invariants of `Store`, and that it implements `Lifecycle` | proofs |
| `RiskGate_proofs`, `Access_proofs` | types and invariants of `RiskGate` and `Access` | proofs |
| `EventStream_proofs` | replay and the history of one stream, of any length | proofs |
| `Service_proofs` | which store calls the service may make and what they keep true; what the simulator can tell | proofs, used by `Gateway_proofs` |
| `Gateway_proofs` | the threads make only those calls: types, safety properties and refinement of `Gateway` | proofs |
| `Exchange_proofs` | what the validators make of a request, and what reaches whom, for any settings and request | proofs |
| `WellOrder` | the least member of a set of numbers, and induction for a set | lemmas |
| `MCStore`, `MCEventStream`, `MCGateway`, `MCRiskGate`, `MCAccess`, `MCExchange` | instances for TLC | model checking |

How state corresponds. `payments[k]` is the aggregate key `k`'s stream replays
to (`RestartLosesNothing`: the two are interchangeable); `outbox` is the
outbox table in insertion order, an entry's id being its position; `parked` is the
table of parked messages. `thread[t].pc` says between which two store
transactions or port exchanges a thread is, and the other fields of
`thread[t]` are the locals it will still use: the loaded digest, the `now` it
was started with, the entry it took. `todo` is what is left of the key list of
a sweeper pass. `ledger`, `queue` and `pushes` are the simulator's advice map,
receive queue and spawned tasks. `arrivals` is a history
variable: no guard reads it.

How actions correspond. A store call is one action, enabled when the code
succeeds; callers in `Gateway` turn a refusal into what the code does with the
error. `submit` is `StartSubmit`, `Validate`, one of `PassUnchecked`, `Allow`,
`Hold`, `Refuse`, and `CommitToOutbox`. `publish_pending` is `FetchEntry`, one
of the `Send` actions, `MarkEntry`, `RecordPublished`, `RecordSyncAdvice`, and
back to `FetchEntry`. `pump_advices` is the `Poll` actions and `ApplyAdvice`,
`expire_holds` is `ExpireScan` and `DiscardExpired`, `release` and `cancel` are
`StartRelease`, `Release`, `StartCancel`, `Cancel`, and `reconcile` is
`StartReconcile` or `ReconcileScan`, then `DeclareTimeout` or `RecordQuery`,
`QueryAnswered` or `QueryLost`, and `RecordAnswer`. `Crash` loses all threads and
keeps the store. Operators named `Mut...` are deliberate bugs and belong to
no specification: `PROJECT.json` says which property notices which of them.

Concurrency and content are modelled apart. In `Gateway` a message is a model
value that stands for the whole pacs.008: what its properties tell apart are
its digest, its message id, the scenario the simulator plays for it and whether
it is valid, and an advice is a message id and a status. In `Exchange` there is one
payment and a handler is one step, but a document has every element some rule
reads. A text there is a length, an alphabet and a name; a routing number is
nine digits; an amount is its number of digits, whether it is zero, and its last
two digits; a time is in UTC, with an offset, without a zone, or malformed.
The validators return sets of issue codes, as the code's vectors have them but
for paths and wording. `Exchange` takes the aggregate's transitions from `Payment`.

`RiskGate` splits `check` where threads can interleave: `Reserve` or `Exhausted`
on the counter, `Spawn` or `SpawnFails`, then `Receive` or `GiveUp` on the
channel. The thread's side is `ProviderReturns` and `DropSlot`, or `ProviderPanics`
and `Disconnect`, in the order the closure drops its values. `Gateway` uses
the three verdicts (`Allow`, `Hold`, `Refuse`) and `PassUnchecked` as choices.

`Access` makes a request two steps: `TurnAway` or `LetThrough` is the middleware,
which fixes the caller, and the handler follows at any later time, against what
the payment has become. `Start` takes any configuration `Accepted` allows, `Stop`
ends a life; payments survive. `submittedBy`, `resolvedBy` and the lives they
happened in are history variables.

## The runs

| Run | Question | Result |
|---|---|---|
| `store` | Do state, outbox and parked messages stay in step under all calls, and does the store keep `Lifecycle`? | holds |
| `event_stream` | Is the aggregate a function of the stream, and does the state say what the history says? | holds |
| `gateway_one` | Safety of the whole with one payment, two clients and the sweeper, under three deployments: over MQ and over HTTP with a lost exchange, a refusal, a crash and a simulator restart, and with a risk check whose holds are released, cancelled and expired while the clock moves | holds |
| `gateway_two` | Do two payments that share outbox, queue and sweeper stay apart, and is every entry published in the end, or consumed if the service refuses it, through two losses, a refusal and a crash? | holds, the latter under fairness |
| `gateway_live` | Is a queued payment resolved and an overdue hold ended, when an advice is withheld, delayed or lost? | holds under fairness |
| `risk_gate` | Are slots counted right, are verdicts on the right payment, does a check end, and does a full budget come back, with a provider that is late, silent, failing or panicking? | holds, the last two under fairness |
| `access` | Do two lives of the gateway with the same keys in other tiers keep submitter and resolver apart, and name the right one? | holds |
| `exchange` | Is exactly what the API documents accepted, is a refusal complete, does every message keep the profile but for a reason configured too long, and does every advice arrive with its meaning? | holds |
| `race_send`, `crash_strands`, `money_moved`, `shared_reference` | Does the code do what this sentence of the documentation says? | it does not: see `findings` |

Bounds. One key is enough for what happens inside a payment, because the store
treats keys apart; two keys are used where threads share something: the outbox,
the queue, the correlation by message id. Two handlers and the sweeper are
the least that makes three publishers race. One loss, one refusal, one crash
and one restart are placed anywhere, in combination, and in `gateway_two` two losses,
so that the same head of the outbox can fail twice; `MaxQueries` of two or
three allows a query after a backoff; `Time` of up to three values gives a time
before, at and after each deadline. `MaxArrivals` caps a history counter.
`MaxEvents` is seven, enough for a hold, its release, the publication, a
timeout, a query and an advice. `Deployments` lists the combinations of
transport, faults and risk gate a run starts in. `risk_gate` has two callers, two
payments the provider judges differently, and budgets of one and two: enough
for a late answer to meet another check, and for abandoned calls to fill the
budget. `MaxStarts` is two, so that a key can change tiers between submission
and resolution; four accepted and four refused configurations are given.
`Setups` of `exchange` has 1604 members: a sound request; each part of it
at its limits, past them, and each pair of such changes; the creditor's routing
number with each digit replaced by each other digit or a letter, with each two
neighbours swapped, shorter and longer; a sound sender, a mistyped one, and one that is too
short, too long or not of digits, with references at their limits; every
scenario of the simulator, configured and by amount, with reasons that fit a code
and one that is too long; both transports. `MaxQueries` is ten there, so that a
query's number gets a second digit, and `MaxLosses` one. Symmetry is used over keys, messages or
handlers in safety runs only. `store`, `event_stream`, `access` and
`exchange` switch deadlock detection off because their behaviours end when the bounds are
used up; every run of the whole gateway and of the risk gate keeps it on.

Fairness. The sweeper is a loop in a thread of its own and handlers are
blocking tasks: each is weakly fair, so a thread that can always take a step
takes one, and an exchange on the port ends, with an answer or a failure. The
clock advances, and a task the simulator spawned wakes up. Nothing is assumed
of clients, and no fault is promised or excluded within its bound. The ports set
no timeout of their own, so "an exchange ends" is an assumption on the network.
In `RiskGate` the gate's own steps are weakly fair, which includes that the time
limit of `recv_timeout` runs out, and so are the last steps of a provider's thread.
Nothing is promised of the provider: `ChecksEnd` holds without it.
`BudgetComesBack` states the one thing it needs of it, that every call returns or
panics in the end, as its own premise.

`gateway_live` leaves out three things, because with any of them a queued payment
can stay unresolved. A crash between `mark_published` and the append of
`Published` strands it: that is `crash_strands`. A transport-level rejection
(`SendRefused`) consumes the outbox entry and leaves the payment SUBMITTED, and
the code says so where it does it. A simulator restart forgets the payment, and a
scenario whose follow-up never comes repeats `PDNG` for ever. `gateway_two`
checks `OutboxDrains` with two losses, a refusal and a crash. It says nothing of an
entry whose exchange never succeeds: the code sets no limit on retries, so
such an entry holds back every later one for ever.

## The proofs

### The store

What TLC shows of two payments and two messages, TLAPS proves of `Store` for any
sets of keys, messages, clock readings and advices, and for any number
of calls. Two named assumptions are used, both in the modules that declare the
constants. `PaymentAssumption`: SHA-256 is injective on the messages, times are
natural numbers, and `None` is none of the values an `Option` can hold.
`StoreAssumption`: the advices sent are advice statuses, and the bound on queries
is a natural number.

| Theorem | Says |
|---|---|
| `StoreTypeCorrect` | no call breaks the types: every event `apply` accepts leaves a well-formed aggregate |
| `StoreInvariant` | the inductive invariant below |
| `ParkingIsExact` | bytes are parked exactly while their payment is HELD, under the recorded digest |
| `QueueIsExact` | a payment has an outbox entry if and only if its state says it was cleared |
| `EntriesAreUnique` | no payment has two outbox entries |
| `HeldSendsParked` | a held payment reaches the outbox by a release, with the bytes that were parked |
| `StoreKeepsPromise` | `Store` implements `Lifecycle`: cleared once, with one message for good, never after a refusal or a cancellation, and a final outcome |

The inductive invariant is `StoreInv`: the types and `Agreement`, which joins the
four properties the run `store` checks with `UnjudgedIsNotHeld`. Together
they need each other: a release may append an entry because the payment is
HELD, hence (`QueuedExactlyWhenCleared`) not queued, hence
(`OneEntryPerPayment`) the new entry is its only one. `HeldSendsOnlyWhatWasParked`
is not inductive without `UnjudgedIsNotHeld`: `submit_to_outbox` queues whatever it is
given, and only the fact that a VALIDATED payment was never judged as held keeps
a held payment from taking that way.

The argument goes up in four layers. `AfterType` and the effect lemmas
(`AppendedEffect`, `ReleasedEffect`, ...) say what each event does to an
aggregate. `EnqueueEffect` and `MarkEffect` say what an operation does to
the outbox. `UnqueuedMoves`, `ClearingQueues` and `AppendKeeps` carry `Agreement`
across the three kinds of call: one that moves a payment off the outbox, one
that queues it, one that appends a plain event. `AgreementStep` reduces every
action to one of them. For the refinement, `EnqueueClears` and
`ClearedMessagesStay` say how the cleared messages move, `AppendedPhase` how a
plain append moves the phase, and `PromiseStep` maps each call to the one step
of `Lifecycle` it is: `create` to `Accept`, `park` and a refusing risk check to
`Judge`, `submit_to_outbox` and `release_parked` to `Clear`, `discard_parked` to
`Cancel`, a decisive advice to `Resolve`, everything else to no step.

### One stream

For streams of any length, any messages and any times (`PaymentAssumption`).

| Theorem | Says |
|---|---|
| `RestartLosesNothing` | replaying a stream rebuilds the aggregate that was moved along with it |
| `EachOnce` | a payment is cleared, published, checked, parked, resolved and declared overdue at most once |
| `FirstAdviceDecides` | the outcome is what the first decisive advice said |
| `JudgedBeforeCleared` | a release names a digest parked before it; a submission follows no hold and no refusal |
| `QueriesAreOnRecord` | queries follow the timeout, and are counted and dated exactly |

`Replay` is a recursive function on the prefixes of a stream. `RunExists` shows
that it is defined and `RunsAgree` that two runs over the same events go through
the same aggregates; both are by induction on the length, for the set of the
lengths where it holds (`SetInduction` of `WellOrder`), since an induction theorem
for an operator is out of the provers' reach. `ReplayOneMore` follows: one more
event, one more step. This is what justifies `payments` in `Store`: the code keeps
streams and replays them, the model keeps the aggregate.

`StreamInv` says what the state of a payment tells of its history. `OnceInv`:
for each kind that comes once, a mark in the aggregate (`Spent`) that is set by the
event, stays set, and forbids a second one. `OutcomeInv`: which advice decided.
`JudgementInv`: where the digest and the risk outcome on record come from.
`QueryInv`: where the counter and the last date come from. `Effect` lists what
each event does to the fields these read, and each of the four step lemmas
goes from there.

### The gateway

For any keys, messages, handlers, deployments, scenarios and bounds. Besides the
assumptions above: `SimulatorAssumption` (scenarios are of the documented form)
and `GatewayAssumption`, whose last clauses say that the clock skips no second,
that the advices of the simulator are among those the service sends, and that
`None` is no key and no message id.

| Theorem | Says |
|---|---|
| `GatewayInvariant` | the inductive invariant below |
| `GatewayTypeCorrect` | the variables keep their types |
| `GatewayImplementsStore` | every step of every thread is a call `Store` describes, or none |
| `GatewayKeepsPromise` | so the running gateway implements `Lifecycle` |
| `OutcomesStayFinal` | no step moves a payment in a final state |
| `OnlyClearedGoOut` | only messages of cleared payments reached the service |
| `AcceptedIsSent` | what is queued or parked is what the payment was created with |
| `PublishedHasArrived` | Published is recorded only for what reached the service |
| `WaitingIsSubmitted` | nothing overtakes the publisher that marks an entry |
| `HoldsEndOnTime` | releases are in time, expiries are not early, by the clock reading of the thread that decides (the model does not bound its age) |
| `OutcomesAreTold` | if message ids are distinct, an outcome is one the service gave of that payment |

The difficulty is that a thread acts on what it read in an earlier transaction.
`Locals` says, per value of `pc`, what the locals of a thread still guarantee:
a handler about to release has a hold that was in time, and the date of
a hold never changes (`Stable`), so it still was in time when the release is
appended; a publisher about to record Published has sent its entry, and arrivals
only grow. `LocalsLast` shows that no step of another thread can take away what
`Locals` claims; that is the whole of the interleaving argument, and why
steps can be looked at one thread at a time (`StepKeeps`).

`ServiceCall` is the discipline: the store calls the service may make, each with
what it must know when it makes them. A plain append of Published needs an arrival
(`MayRecordPublished`), an advice needs to be about the payment's message
(`MayRecordAdvice`), a release needs to be in time. `DisciplineStep` shows
that calls within the discipline keep `ServiceInv`: `SendsWhatWasAccepted`,
`UnpublishedIsSubmitted` and `PublishedMeansArrived`, made inductive by
`ArrivedIsQueued`, and per payment `HoldsOnRecord` and `OutcomesOnRecord`, from
which the last two theorems of the table follow. `ServiceIsACaller` shows that such a call is one of `Store`'s, so `StoreInv`
carries over. Each action of `Gateway` then has one lemma (`SendKeeps`, `PollKeeps`,
...) that names its call, shows it is within the discipline, and that the thread
ends with locals it can count on. `SimInv` follows advices through ledger,
queue and delayed tasks: each is one the service has to tell (`Said`) of the
message id it carries.

`OutcomesAreTold` has the premise `DistinctIds`, and `shared_reference` shows
what happens without it: an advice is applied to any payment with its message id.

### The risk gate

For any finite sets of callers and threads, any payments, any settings and any
opinions of the provider (`RiskAssumption`).

| Theorem | Says |
|---|---|
| `RiskGateTypeCorrect` | the variables keep their types; the counter, unsigned in the code, never goes below zero |
| `SlotsAreCallsHolds` | the counter is the number of calls under way or about to start, and never above the budget |
| `VerdictIsJustifiedHolds` | a provider's verdict is its decision on that very payment, any other is the policy's |
| `FailOpenIsAskedForHolds` | with a provider, no payment is cleared without its consent unless the settings say so |

`SlotsInv` joins the types and `SlotsAreCalls`: a slot can only be given back
because the counter equals the cardinality of a set that has a member, so the two
need each other. `AddHolder` and `DropHolder` say how the cardinality moves;
`SlotsStep` goes through the actions. `AnswersInv` carries the verdicts: a
running thread's subject is the subject of the caller still listening to it,
each caller is listened for by one thread at most, an answer in an inbox is the
provider's on that caller's subject, and a caller that gave up is nobody's
listener. Without the last part a late answer would meet the next check.

### Access

For any keys, labels, configurations, clients, requests and number of restarts
(`AccessAssumption`, `AskedAssumption`).

| Theorem | Says |
|---|---|
| `AccessTypeCorrect` | the variables keep their types; every actor on record is a label or the gateway |
| `SeparationOfDutiesHolds` | nobody resolves the hold of a payment he submitted in the same life |
| `ActorIsTheKeysHolds` | the actor on record is the only label of the key presented |
| `OnlyKeysAreAnsweredHolds` | answers about payments go to keys of that life only |

`AccessInv` has seven parts. `AcceptedLives`: every life so far had an accepted
configuration, so tiers are disjoint and labels unique in it. `PendingJudged`: a
request in progress was let through by the configuration of the life it is in,
with the caller `identify` found. `SubmittedByFull` and `ResolvedByOperator`: who
submitted held a full key in that life, who resolved an operator's, whose label
is the actor. `HeldIsUnresolved` keeps a resolution from being overwritten.
`SeparationOfDuties` follows, because the tiers of one life do not meet.

### The exchange

For any settings, requests, scenarios and bounds on queries and losses, where
TLC enumerates requests at the edges of every rule. Four named assumptions.
`MessageAssumption`: `None` is none of the values an `Option` holds.
`ExchangeAssumption`: settings and requests are of their types (the sender and
the creditor any sequence of characters, a text of any length, an amount of any
number of digits), and scenarios are those `SimConfig::from_toml` can name, the
reason of a rejection being any text (`Reason`), of which those of one to four
characters are `ReasonCode`. A reason with blanks at its ends, which reading XML
takes away, is outside it. `BankAssumption`: a bank's number is issued with the weighted sum of its
digits (3, 7, 1) ending in zero, and a number a setup names is a bank's,
mistyped in one digit or with two neighbours not five apart swapped, or not nine
digits. A nine-digit number that is nobody's and has a valid checksum is outside
it: no check of the gateway can tell it from a bank's. `AggregateAssumption`:
`None` is no aggregate and no report.

| Theorem | Says |
|---|---|
| `ExchangeInvariant` | the inductive invariant below |
| `ExchangeTypes` | the variables keep their types; what was sent is the publication, queries, and repeats after a loss |
| `ExchangeAcceptance` | exactly the requests within the documented limits get past CREATED |
| `ExchangeRefusal` | a refusal names every defect of the request, and nothing else |
| `ExchangeProfile` | every message written keeps the profile its reader checks, envelope and header included; only the reason of a rejection configured with a code of another length than one to four breaks the rule on it (`ReasonFlaw`), and no other |
| `ExchangeDelivery` | the payment is moved only by what the scenario means, with its reason; no answer is lost on its receiver |

Most of the argument is about operators, in three groups. What a client is told:
`TransferIssues` evaluates `validate_pacs008` on the builder's document, which leaves
eight checks that a request can fail (`SubmissionIssues`); `BanksAreAccepted`, from
`OneDigitMoves` and `NeighboursMove`, shows by arithmetic modulo ten that the
checksum notices a slip; `DefectsAreNamed` relates the eight checks to `Defects`. A
routing number that is not nine letters and digits also spoils the message
identifier, so the sender is a defect of its own and the reference
is judged only under a sender it can be judged with. What the other documents
are: `AboutIsValid`, `QueryIsValid`, `HeaderIsValid`, `WrappedIsValid` and `MailIsGood` show that
advices, queries and envelopes about an accepted submission are valid, an
advice up to the length of its reason's code (`FlawOf`); the identifiers fit because
an advice cuts the one it answers (`AdviceIdsFit`) and a query's number, a 32-bit
count, has ten digits at most (`AtMostTenDigits`). What is
understood: `ScenarioIsPlayed`, `AdviceIsGood`, `FollowUpIsGood` and `ReportReadsBack` show
that an advice reads back as the scenario means.

`ExchangeInv` then says where those documents are. `PaymentInv` ties the payment to
the verdict on its request. `WireInv`: only an accepted submission is ever on the
wire, tasks, queue and ledger hold advices about it (`Mail`, `Advices`), and once
the gateway knows its publication (`OnRecord`) the simulator has it on its ledger,
which is why no query is refused. `Recorded` counts what the payment's record tells of
the messages sent; the rest are losses. `OutcomeInv` is what is concluded of reports.
None of the three is inductive alone: a query is answered because of the ledger,
what it answers is meant because the ledger holds only advices, and those are
what they should be because the submission was accepted.

## What is only model-checked

Liveness (`OutboxDrains`, `SubmittedIsResolved`, `OverdueHoldsEnd`, and the two of
`RiskGate`), since the proof system handles neither fairness nor ENABLED; and
what contradicts the documentation (`findings`). All other properties of the runs
are proved for every value of the constants.

## Not modelled

Late arrival of a request whose exchange was given up, storage errors in
SQLite, the text of XML and its parsing, the read-only views, reading the settings
other than keys and the risk gate's, and `sanitize_reason`. The validators of
returns (pacs.004, camt.056, camt.029) and the setters of the builders that
neither the gateway nor the simulator calls: no part of the system sends or
reads such a message. The simulator's demo risk endpoint is a function of
the amount; `RiskGate` has the provider's opinion as a constant. The conformance
kit compares stored vectors with the parsers and keeps no state, and the
clients make one HTTP call per method. `PROJECT.json` lists every component with
its status.

Elements a `Message` document leaves out because no rule that can fire here reads them:
names and addresses, remittance information, technical headers, the group
status of a pacs.002. The names of messages are a fixed few of fifteen characters,
so the length rule on `MsgDefIdr` cannot fire either.

## Plan

Done: `Payment`, `EventStream`, `Lifecycle`, `Store`, `Simulator`, `Gateway`,
`RiskGate`, `Access`, `Message`, `Exchange`, with the runs above; the invariants of
`Store`, `EventStream`, `Gateway`, `RiskGate`, `Access` and `Exchange`, and the chain of
refinements from `Gateway` over `Store` to `Lifecycle`, proved. Left: the conformance
verdicts and the operations summary as operators.

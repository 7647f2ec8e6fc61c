------------------------------- MODULE Store -------------------------------
(***************************************************************************)
(* The payment store of fednow-gateway (gateway/src/store.rs and           *)
(* sqlite.rs): event-sourced payments, the outbox and the parked messages  *)
(* of held payments.  Every operation runs under one mutex and, in SQLite, *)
(* in one transaction: here, one action.                                   *)
(*                                                                         *)
(* An event stream is represented by the aggregate it replays to;          *)
(* EventStream checks that the two carry the same information.             *)
(*                                                                         *)
(* StoreSpec lets any number of callers make the calls service.rs makes,   *)
(* in any order and with any arguments.                                    *)
(***************************************************************************)
EXTENDS Payment, Sequences

CONSTANTS
  Key,            \* idempotency keys
  Advice,         \* advice statuses the FedNow side sends
  MaxQueries      \* bound on the queries recorded per payment

ASSUME StoreAssumption ==
  /\ Advice \subseteq AdviceStatus
  /\ MaxQueries \in Nat

VARIABLES
  payments,       \* aggregate of each key, None before its creation
  outbox,         \* sequence of entries; an entry's id is its position
  parked          \* message parked for each key, or None

storeVars == <<payments, outbox, parked>>

OutboxEntry == [key : Key, message : Message, published : BOOLEAN]

\* The types of the store's variables.
StoreTypeOK ==
  /\ payments \in [Key -> PaymentRecord \cup {None}]
  /\ outbox \in Seq(OutboxEntry)
  /\ parked \in [Key -> Message \cup {None}]

StoreInit ==
  /\ payments = [k \in Key |-> None]
  /\ outbox = << >>
  /\ parked = [k \in Key |-> None]

-----------------------------------------------------------------------------
(* Reads.                                                                  *)

Known(k) == payments[k] # None

StateOf(k) == IF Known(k) THEN payments[k].state ELSE "ABSENT"

\* Whether append_to would accept e on the stream of k.
Accepts(k, e) == Known(k) /\ Legal(payments[k], e)

InOutbox(k) == \E i \in DOMAIN outbox : outbox[i].key = k

Unpublished == {i \in DOMAIN outbox : ~outbox[i].published}

\* Id of the entry next_unpublished returns, 0 when there is none.
NextUnpublished ==
  IF Unpublished = {} THEN 0
  ELSE CHOOSE i \in Unpublished : \A j \in Unpublished : i <= j

-----------------------------------------------------------------------------
(* Operations.  Each is enabled exactly when the code succeeds; a refusal  *)
(* leaves the store as it was.                                             *)

Enqueue(k, m) ==
  outbox' = Append(outbox, [key |-> k, message |-> m, published |-> FALSE])

\* create, when the key is new; an existing key is only read.
Create(k, m) ==
  /\ ~Known(k)
  /\ payments' = [payments EXCEPT ![k] = NewPayment(m)]
  /\ UNCHANGED <<outbox, parked>>

AppendEvent(k, e) ==
  /\ Accepts(k, e)
  /\ payments' = [payments EXCEPT ![k] = After(@, e)]
  /\ UNCHANGED <<outbox, parked>>

MutEnqueueAnyway(k, m) ==
  /\ Known(k)
  /\ payments' = [payments EXCEPT ![k] = Apply(@, Submitted)]
  /\ Enqueue(k, m)
  /\ UNCHANGED parked

MutEnqueueOnly(k, m) ==
  /\ Accepts(k, Submitted) /\ ~InOutbox(k)
  /\ Enqueue(k, m)
  /\ UNCHANGED <<payments, parked>>

SubmitToOutbox(k, m) ==
  /\ ~InOutbox(k)
  /\ Accepts(k, Submitted)
  /\ payments' = [payments EXCEPT ![k] = After(@, Submitted)]
  /\ Enqueue(k, m)
  /\ UNCHANGED parked

MutMarkNothing(i) == i \in DOMAIN outbox /\ UNCHANGED storeVars

MarkPublished(i) ==
  /\ i \in DOMAIN outbox
  /\ outbox' = [outbox EXCEPT ![i].published = TRUE]
  /\ UNCHANGED <<payments, parked>>

\* park with the two events service.rs passes: the hold and its digest.
Park(k, m, t) ==
  LET held == After(payments[k], RiskChecked("hold", t))
      hold == HoldParked(Sha256[m])
  IN  /\ Accepts(k, RiskChecked("hold", t))
      /\ Legal(held, hold)
      /\ payments' = [payments EXCEPT ![k] = After(held, hold)]
      /\ parked' = [parked EXCEPT ![k] = m]
      /\ UNCHANGED outbox

MutReleaseWithoutQueueing(k, d, by, t) ==
  /\ parked[k] # None /\ Sha256[parked[k]] = d
  /\ Accepts(k, HoldReleased(d, by, t))
  /\ payments' = [payments EXCEPT ![k] = After(@, HoldReleased(d, by, t))]
  /\ parked' = [parked EXCEPT ![k] = None]
  /\ UNCHANGED outbox

MutReleaseRebuilt(k, d, by, t) ==
  /\ parked[k] # None /\ Sha256[parked[k]] = d
  /\ ~InOutbox(k)
  /\ Accepts(k, HoldReleased(d, by, t))
  /\ payments' = [payments EXCEPT ![k] = After(@, HoldReleased(d, by, t))]
  /\ parked' = [parked EXCEPT ![k] = None]
  /\ Enqueue(k, payments[k].message)

\* The digest is checked twice, as in the code: against the parked bytes
\* (check_parked) and against the recorded one (Payment::apply).
ReleaseParked(k, d, by, t) ==
  /\ parked[k] # None
  /\ Sha256[parked[k]] = d
  /\ ~InOutbox(k)
  /\ Accepts(k, HoldReleased(d, by, t))
  /\ payments' = [payments EXCEPT ![k] = After(@, HoldReleased(d, by, t))]
  /\ parked' = [parked EXCEPT ![k] = None]
  /\ Enqueue(k, parked[k])

MutDiscardKeepsMessage(k, by, t) ==
  /\ Accepts(k, HoldCancelled(by, t))
  /\ payments' = [payments EXCEPT ![k] = After(@, HoldCancelled(by, t))]
  /\ UNCHANGED <<outbox, parked>>

DiscardParked(k, by, t) ==
  /\ Accepts(k, HoldCancelled(by, t))
  /\ payments' = [payments EXCEPT ![k] = After(@, HoldCancelled(by, t))]
  /\ parked' = [parked EXCEPT ![k] = None]
  /\ UNCHANGED outbox

-----------------------------------------------------------------------------
\* The events the service passes to plain append.
AppendedEvent ==
  {Validated, TimeoutDeclared}
    \cup {RiskChecked(o, t) : o \in {"allow", "refuse"}, t \in Time}
    \cup {Published(t)      : t \in Time}
    \cup {AdviceReceived(s) : s \in Advice}
    \cup {QuerySent(t)      : t \in Time}

AppendCall(k, e) ==
  /\ e.kind = "QuerySent" => payments[k].queries < MaxQueries
  /\ AppendEvent(k, e)

StoreCall(k) ==
  \/ \E m \in Message : Create(k, m) \/ SubmitToOutbox(k, m)
  \/ \E e \in AppendedEvent : Known(k) /\ AppendCall(k, e)
  \/ \E m \in Message, t \in Time : Park(k, m, t)
  \/ \E d \in Digest, by \in Actor, t \in Time : ReleaseParked(k, d, by, t)
  \/ \E by \in Actor, t \in Time : DiscardParked(k, by, t)

StoreNext ==
  \/ \E k \in Key : StoreCall(k)
  \/ \E i \in DOMAIN outbox : MarkPublished(i)

StoreSpec == StoreInit /\ [][StoreNext]_storeVars

-----------------------------------------------------------------------------
(* Safety.                                                                 *)

\* A message is parked exactly while its payment is HELD, and the digest on
\* record is the digest of the bytes parked (hold.rs: parked outside the
\* outbox in the same transaction as the hold).
ParkedExactlyWhileHeld ==
  \A k \in Key :
    IF StateOf(k) = "HELD"
    THEN parked[k] # None /\ payments[k].digest = Sha256[parked[k]]
    ELSE parked[k] = None

\* A payment has an outbox entry exactly when its state says its message was
\* cleared for the wire: no payment is SUBMITTED or beyond without a durable
\* message, and no message of a held, refused or cancelled payment is queued.
QueuedExactlyWhenCleared ==
  \A k \in Key : InOutbox(k) <=> StateOf(k) \in Cleared

\* No payment ever has two outbox entries (the unique index of sqlite.rs).
OneEntryPerPayment ==
  \A i, j \in DOMAIN outbox : outbox[i].key = outbox[j].key => i = j

\* A payment the risk check held reaches the outbox only through a release,
\* and what is queued then is the message whose digest was recorded when it
\* was parked, whatever the callers passed.
HeldSendsOnlyWhatWasParked ==
  \A i \in DOMAIN outbox :
    LET p == payments[outbox[i].key]
    IN  p.risk = "hold" =>
          /\ p.resolution # None /\ p.resolution.action = "released"
          /\ p.digest = Sha256[outbox[i].message]
-----------------------------------------------------------------------------
(* Refinement: what a caller is promised.                                  *)

PhaseOf(k) ==
  LET s == StateOf(k)
  IN  CASE s = "ABSENT"                   -> "absent"
        [] s \in {"CREATED", "VALIDATED"} -> "accepted"
        [] s = "HELD"                     -> "held"
        [] s = "REFUSED"                  -> "refused"
        [] s = "CANCELLED"                -> "cancelled"
        [] s = "SETTLED"                  -> "settled"
        [] s = "REJECTED"                 -> "rejected"
        [] OTHER                          -> "queued"

EntryOf(k) == CHOOSE i \in DOMAIN outbox : outbox[i].key = k

ClearedMessage(k) == IF InOutbox(k) THEN outbox[EntryOf(k)].message ELSE None

Promise == INSTANCE Lifecycle WITH
             phase   <- [k \in Key |-> PhaseOf(k)],
             cleared <- [k \in Key |-> ClearedMessage(k)]

\* Whatever calls the store receives, a payment moves only as Lifecycle
\* promises: cleared at most once and with one message for good, never after
\* a refusal or a cancellation, and with a final outcome.
KeepsPromise == Promise!LifecycleSpec
=============================================================================

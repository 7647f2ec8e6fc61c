------------------------- MODULE GatewayProperties -------------------------
(***************************************************************************)
(* What the running gateway is meant to guarantee, and what its            *)
(* documentation says of it.                                               *)
(***************************************************************************)
EXTENDS Gateway

-----------------------------------------------------------------------------
(* Safety.                                                                 *)

\* The service only makes the store calls Store describes, so everything
\* proved of the store holds of the gateway.
ImplementsStore == StoreSpec

\* A message that reached the service belongs to a payment that was cleared:
\* never to one that is invalid, held, refused, cancelled or expired, whatever
\* releases, cancels, expiries and crashes raced.
OnlyClearedReachTheWire ==
  \A k \in Key : arrivals[k] > 0 => StateOf(k) \in Cleared

\* What is queued or parked under a key is the message the creation event of
\* that key recorded, even when clients reuse a key for another message.
SendsWhatWasAccepted ==
  /\ \A i \in DOMAIN outbox : outbox[i].message = payments[outbox[i].key].message
  /\ \A k \in Key : parked[k] # None => parked[k] = payments[k].message

\* Published is recorded only after a confirmed handoff: a payment past
\* SUBMITTED has reached the service (publish_pending).
PublishedMeansArrived ==
  \A k \in Key : StateOf(k) \in Cleared \ {"SUBMITTED"} => arrivals[k] > 0

\* As long as an entry awaits publication its payment is SUBMITTED: no advice,
\* timeout or second publisher overtakes the publisher that marks it.
UnpublishedIsSubmitted ==
  \A i \in Unpublished : StateOf(outbox[i].key) = "SUBMITTED"

\* An outcome on record is one the service gave this payment's own message.
OutcomeIsTheServices ==
  \A k \in Key :
    LET told == {LedgerEntry(payments[k].message)[i] :
                   i \in DOMAIN LedgerEntry(payments[k].message)}
    IN  /\ StateOf(k) = "SETTLED"  => told \cap SettlesFunds # {}
        /\ StateOf(k) = "REJECTED" => "RJCT" \in told

\* A release is recorded within the maximum age of the hold, an expiry only
\* after it, by the clock of the thread that decided (hold.rs).
HoldsEndInTime ==
  \A k \in Key :
    LET r == payments[k].resolution
    IN  Known(k) /\ r # None =>
          IF r.action = "released"
          THEN r.at <= payments[k].heldAt + HoldMaxAge
          ELSE r.by = "gateway" => r.at > payments[k].heldAt + HoldMaxAge

\* A recorded outcome is never revised and a payment that was refused or
\* cancelled never moves again, while late advices, queries and crashes go on.
OutcomesAreFinal ==
  [][\A k \in Key : StateOf(k) \in Terminal => StateOf(k)' = StateOf(k)]_vars

-----------------------------------------------------------------------------
(* Liveness, under Fairness.                                               *)

\* An outbox entry is eventually published or, if the service refuses it,
\* consumed: once the losses and crashes of the deployment are spent, the sweeper
\* gets past a head that failed (publish_pending).  Of a head that fails for ever
\* it says nothing.
OutboxDrains ==
  \A k \in Key :
    (\E i \in Unpublished : outbox[i].key = k)
      ~> (\A i \in Unpublished : outbox[i].key # k)

\* A queued payment eventually has its outcome: the sweeper, the timeout and
\* the pacs.028 make up for advices that were withheld or lost.
SubmittedIsResolved ==
  \A k \in Key : StateOf(k) = "SUBMITTED" ~> StateOf(k) \in {"SETTLED", "REJECTED"}

\* A hold past its maximum age does not stay: the sweeper cancels it unless an
\* operator resolves it first.
OverdueHoldsEnd ==
  \A k \in Key :
    (StateOf(k) = "HELD" /\ payments[k].heldAt + HoldMaxAge < clock)
      ~> StateOf(k) # "HELD"

-----------------------------------------------------------------------------
(* What the documentation says and the code does not keep.                 *)

\* gateway/README.md: "the message is sent once".
SentOnce == \A k \in Key : arrivals[k] <= 1

\* handbook 01: "ACWP is money-moved": a payment the service accepted without
\* posting is not REJECTED.
MoneyMovedIsNotRejected ==
  \A k \in Key :
    Known(k) /\ ledger[MsgId[payments[k].message]] # << >>
      /\ Head(ledger[MsgId[payments[k].message]]) = "ACWP"
      => StateOf(k) # "REJECTED"
=============================================================================

---------------------------- MODULE EventStream ----------------------------
(***************************************************************************)
(* One payment's event stream (append_to in gateway/src/store.rs over      *)
(* Payment::replay).  The stream is all that is durable; the aggregate is  *)
(* rebuilt from it before every append.  The variable payment is the       *)
(* aggregate moved one event at a time, as Store represents it: the        *)
(* invariants say that nothing is lost by either representation, and that  *)
(* the state can be read off the history alone.                            *)
(***************************************************************************)
EXTENDS Payment, Sequences, FiniteSets

CONSTANT MaxEvents          \* bound on the length of a stream

ASSUME EventStreamAssumption == MaxEvents \in Nat

VARIABLES
  message,        \* what the creation event recorded
  stream,         \* the events after it, oldest first
  payment         \* the aggregate moved along with the stream

vars == <<message, stream, payment>>

\* Payment::replay: the first illegal event makes the whole stream unusable.
ReplayStep(p, e) == IF p # None /\ Legal(p, e) THEN After(p, e) ELSE None

Replay(m, s) ==
  LET replayed[n \in 0..Len(s)] ==
        IF n = 0 THEN NewPayment(m) ELSE ReplayStep(replayed[n - 1], s[n])
  IN  replayed[Len(s)]

Init ==
  /\ message \in Message
  /\ stream = << >>
  /\ payment = NewPayment(message)

MutAppendUnjudged(e) ==
  /\ Len(stream) < MaxEvents
  /\ stream' = Append(stream, e)
  /\ payment' = Apply(payment, e)
  /\ UNCHANGED message

\* append_to: the transition is judged on a freshly replayed aggregate.
AppendTo(e) ==
  LET replayed == Replay(message, stream)
  IN  /\ Len(stream) < MaxEvents
      /\ replayed # None
      /\ Legal(replayed, e)
      /\ stream' = Append(stream, e)
      /\ payment' = Apply(payment, e)
      /\ UNCHANGED message

Next == \E e \in PaymentEvent : AppendTo(e)

Spec == Init /\ [][Next]_vars

-----------------------------------------------------------------------------
At(kinds) == {i \in DOMAIN stream : stream[i].kind \in kinds}

Advised(statuses) == {i \in At({"AdviceReceived"}) : stream[i].status \in statuses}

\* The variables' types.
TypeOK ==
  /\ message \in Message
  /\ stream \in Seq(PaymentEvent)
  /\ payment \in PaymentRecord

\* A restart loses nothing: replaying the stream gives the aggregate that was
\* moved event by event (the module comment of payment.rs).
ReplayRebuilds == Replay(message, stream) = payment

\* A payment is cleared, published, risk-checked and resolved from a hold at
\* most once in its life, in whatever order events are offered.
OnceInALife ==
  \A kinds \in {{"Submitted", "HoldReleased"}, {"Published"}, {"RiskChecked"},
                {"HoldParked"}, {"HoldReleased", "HoldCancelled"},
                {"TimeoutDeclared"}} :
    Cardinality(At(kinds)) <= 1

\* The outcome is what the first decisive advice said: settled by the first
\* settling status, rejected by an RJCT no settling status preceded, and never
\* revised by a later advice.
FirstDecisiveAdviceWins ==
  LET decisive == Advised(SettlesFunds \cup {"RJCT"})
      first    == CHOOSE i \in decisive : \A j \in decisive : i <= j
  IN  /\ decisive = {} <=> payment.state \notin {"SETTLED", "REJECTED"}
      /\ decisive # {} =>
           payment.state = IF stream[first].status = "RJCT"
                           THEN "REJECTED" ELSE "SETTLED"

\* A release names the digest that was parked before it, and the payment was
\* held in between; a payment checked as hold or refuse has no other way to be
\* cleared.
ClearedOnlyAsJudged ==
  /\ \A i \in At({"HoldReleased"}) :
       \E j \in At({"HoldParked"}) : j < i /\ stream[j].digest = stream[i].digest
  /\ \A i \in At({"RiskChecked"}), j \in At({"Submitted"}) :
       stream[i].outcome = "allow"

\* Queries are sent only for a payment whose timeout was declared, and are
\* counted one by one; the last one's time is the one the backoff starts from.
QueriesFollowTimeout ==
  LET asked == At({"QuerySent"})
  IN  /\ \A i \in asked : \E j \in At({"TimeoutDeclared"}) : j < i
      /\ payment.queries = Cardinality(asked)
      /\ asked # {} =>
           payment.lastQueryAt =
             stream[CHOOSE i \in asked : \A j \in asked : j <= i].at
=============================================================================

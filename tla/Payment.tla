------------------------------ MODULE Payment ------------------------------
(***************************************************************************)
(* The payment aggregate of fednow-gateway (gateway/src/payment.rs): the   *)
(* states a payment goes through, the events that move it, and the         *)
(* transitions the state machine accepts.  Everything here is a constant   *)
(* operator on one aggregate; Store keeps one aggregate per idempotency    *)
(* key and Gateway runs the processes that append events.                  *)
(*                                                                         *)
(* A message stands for the whole pacs.008 a submission builds (amount,    *)
(* parties, message identification), because a payment's message is a      *)
(* function of the request; Sha256 is an arbitrary injective digest.       *)
(***************************************************************************)
EXTENDS Naturals

CONSTANTS
  Message,        \* the pacs.008 messages clients can ask for
  Sha256,         \* digest of each message, a function on Message
  Time,           \* the Unix seconds a clock can show
  None            \* Rust's Option::None

Digest == {Sha256[m] : m \in Message}

-----------------------------------------------------------------------------
PaymentState == {"CREATED", "VALIDATED", "HELD", "REFUSED", "CANCELLED",
                 "SUBMITTED", "ACK_PENDING", "SETTLED", "REJECTED",
                 "TIMEOUT_UNRESOLVED"}

AdviceStatus  == {"ACSC", "ACCC", "ACWP", "BLCK", "RJCT", "ACTC", "PDNG"}
SettlesFunds  == {"ACSC", "ACCC", "ACWP", "BLCK"}
RiskOutcome   == {"allow", "hold", "refuse"}
HoldAction    == {"released", "cancelled"}
Actor         == {"operator", "gateway"}

HoldResolution == [action : HoldAction, by : Actor, at : Time]

\* The aggregate: message stands for the fields copied from the creation
\* event, digest for held_message_sha256, advice for last_advice.  HELD,
\* SUBMITTED, ... are the names PaymentState::name gives.
PaymentRecord ==
  [state       : PaymentState,
   message     : Message,
   risk        : RiskOutcome \cup {None},
   heldAt      : Time \cup {None},
   digest      : Digest \cup {None},
   resolution  : HoldResolution \cup {None},
   publishedAt : Time \cup {None},
   lastQueryAt : Time \cup {None},
   queries     : Nat,
   advice      : AdviceStatus \cup {None}]

\* SHA-256 is taken to be collision free, and None is none of the values an
\* Option can hold.
ASSUME PaymentAssumption ==
  /\ \A m, n \in Message : Sha256[m] = Sha256[n] => m = n
  /\ Time \subseteq Nat
  /\ None \notin Message \cup Digest \cup Nat \cup RiskOutcome \cup AdviceStatus
  /\ None \notin HoldResolution
  /\ None \notin PaymentRecord

-----------------------------------------------------------------------------
(* The events after Created, which NewPayment consumes.                    *)

Validated            == [kind |-> "Validated"]
RiskChecked(o, t)    == [kind |-> "RiskChecked", outcome |-> o, at |-> t]
HoldParked(d)        == [kind |-> "HoldParked", digest |-> d]
HoldReleased(d,by,t) == [kind |-> "HoldReleased", digest |-> d, by |-> by, at |-> t]
HoldCancelled(by, t) == [kind |-> "HoldCancelled", by |-> by, at |-> t]
Submitted            == [kind |-> "Submitted"]
Published(t)         == [kind |-> "Published", at |-> t]
AdviceReceived(s)    == [kind |-> "AdviceReceived", status |-> s]
TimeoutDeclared      == [kind |-> "TimeoutDeclared"]
QuerySent(t)         == [kind |-> "QuerySent", at |-> t]

PaymentEvent ==
  {Validated, Submitted, TimeoutDeclared}
    \cup {RiskChecked(o, t)     : o \in RiskOutcome, t \in Time}
    \cup {HoldParked(d)         : d \in Digest}
    \cup {HoldReleased(d, b, t) : d \in Digest, b \in Actor, t \in Time}
    \cup {HoldCancelled(b, t)   : b \in Actor, t \in Time}
    \cup {Published(t)          : t \in Time}
    \cup {AdviceReceived(s)     : s \in AdviceStatus}
    \cup {QuerySent(t)          : t \in Time}

-----------------------------------------------------------------------------
(* Payment::new                                                            *)
NewPayment(m) ==
  [state       |-> "CREATED",
   message     |-> m,
   risk        |-> None,
   heldAt      |-> None,
   digest      |-> None,
   resolution  |-> None,
   publishedAt |-> None,
   lastQueryAt |-> None,
   queries     |-> 0,
   advice      |-> None]

\* The match guards of apply: one risk check per payment, and a release of
\* the digest on record.  The Mut operators below and in the other modules are
\* bugs put in on purpose: each run is known to notice one of them.
MutRiskCheckable(p) == p.state = "VALIDATED"
RiskCheckable(p)    == p.state = "VALIDATED" /\ p.risk = None

MutReleasable(p, d) == p.state = "HELD" /\ p.digest # None
Releasable(p, d)    == p.state = "HELD" /\ p.digest = d

MutQueryable(p) == p.state \in {"ACK_PENDING", "TIMEOUT_UNRESOLVED"}
Queryable(p)    == p.state = "TIMEOUT_UNRESOLVED"

(* The (state, event) pairs Payment::apply has an arm for; any other pair  *)
(* is a TransitionError that leaves the aggregate as it was.               *)
Legal(p, e) ==
  \/ e.kind = "Validated"       /\ p.state = "CREATED"
  \/ e.kind = "RiskChecked"     /\ RiskCheckable(p)
  \/ e.kind = "HoldParked"      /\ p.state = "HELD" /\ p.digest = None
  \/ e.kind = "HoldReleased"    /\ Releasable(p, e.digest)
  \/ e.kind = "HoldCancelled"   /\ p.state = "HELD"
  \/ e.kind = "Submitted"       /\ p.state = "VALIDATED"
  \/ e.kind = "Published"       /\ p.state = "SUBMITTED"
  \/ e.kind = "AdviceReceived"
       /\ p.state \in {"ACK_PENDING", "TIMEOUT_UNRESOLVED", "SETTLED"}
  \/ e.kind = "TimeoutDeclared" /\ p.state = "ACK_PENDING"
  \/ e.kind = "QuerySent"       /\ Queryable(p)

AfterRisk(outcome) ==
  CASE outcome = "allow"  -> "VALIDATED"
    [] outcome = "hold"   -> "HELD"
    [] outcome = "refuse" -> "REFUSED"

MutStatusAsState(state, status) ==
  IF status \in SettlesFunds THEN "SETTLED" ELSE status

MutLateRejection(state, status) ==
  IF status \in SettlesFunds THEN "SETTLED"
  ELSE IF status = "RJCT" THEN "REJECTED" ELSE state

MutAnyAdviceSettles(state, status) == "SETTLED"

\* An advice that is neither a settlement nor a rejection is interim.
AfterAdvice(state, status) ==
  IF state = "SETTLED" \/ status \in SettlesFunds THEN "SETTLED"
  ELSE IF status = "RJCT" THEN "REJECTED"
  ELSE state

(* The aggregate Payment::apply leaves after a legal event.                *)
After(p, e) ==
  CASE e.kind = "Validated" -> [p EXCEPT !.state = "VALIDATED"]
    [] e.kind = "RiskChecked" ->
         [p EXCEPT !.state  = AfterRisk(e.outcome),
                   !.risk   = e.outcome,
                   !.heldAt = IF e.outcome = "hold" THEN e.at ELSE @]
    [] e.kind = "HoldParked" -> [p EXCEPT !.digest = e.digest]
    [] e.kind = "HoldReleased" ->
         [p EXCEPT !.state = "SUBMITTED",
                   !.resolution = [action |-> "released", by |-> e.by, at |-> e.at]]
    [] e.kind = "HoldCancelled" ->
         [p EXCEPT !.state = "CANCELLED",
                   !.digest = None,
                   !.resolution = [action |-> "cancelled", by |-> e.by, at |-> e.at]]
    [] e.kind = "Submitted" -> [p EXCEPT !.state = "SUBMITTED"]
    [] e.kind = "Published" ->
         [p EXCEPT !.state = "ACK_PENDING", !.publishedAt = e.at]
    [] e.kind = "AdviceReceived" ->
         [p EXCEPT !.state = AfterAdvice(@, e.status), !.advice = e.status]
    [] e.kind = "TimeoutDeclared" -> [p EXCEPT !.state = "TIMEOUT_UNRESOLVED"]
    [] e.kind = "QuerySent" ->
         [p EXCEPT !.queries = @ + 1, !.lastQueryAt = e.at]

(* Payment::apply as a total step: a refused event changes nothing.        *)
Apply(p, e) == IF Legal(p, e) THEN After(p, e) ELSE p

-----------------------------------------------------------------------------
\* States whose message has been cleared for the wire: it is, or was, in the
\* outbox.
Cleared == {"SUBMITTED", "ACK_PENDING", "TIMEOUT_UNRESOLVED", "SETTLED", "REJECTED"}

\* States no event leaves.
Terminal == {"REFUSED", "CANCELLED", "SETTLED", "REJECTED"}
=============================================================================

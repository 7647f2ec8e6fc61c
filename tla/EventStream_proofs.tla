------------------------- MODULE EventStream_proofs -------------------------
(***************************************************************************)
(* Proofs about EventStream, for streams of any length, any messages and   *)
(* any times: replay rebuilds the aggregate that was moved along, and the  *)
(* history of a payment is what its state says.                            *)
(*                                                                         *)
(* Replay is a recursive function on the prefixes of the stream.  That it  *)
(* is defined, and that appending an event applies one more step, is       *)
(* proved by induction on the length, with the set of the lengths for      *)
(* which it holds (SetInduction).                                          *)
(***************************************************************************)
EXTENDS EventStream, FiniteSetTheorems, WellOrder

-----------------------------------------------------------------------------
(* Replay.                                                                 *)

\* f is the sequence of aggregates a replay of the first n events goes through.
IsRun(f, m, s, n) ==
  f = [i \in 0..n |-> IF i = 0 THEN NewPayment(m) ELSE ReplayStep(f[i - 1], s[i])]

\* Every prefix has a run.
LEMMA RunExists ==
  ASSUME NEW m, NEW s, NEW n \in Nat
  PROVE  \E f : IsRun(f, m, s, n)
<1> DEFINE S == {i \in Nat : \E f : IsRun(f, m, s, i)}
<1>1. 0 \in S
  <2> DEFINE f == [i \in 0..0 |-> NewPayment(m)]
  <2>1. f = [i \in 0..0 |-> IF i = 0 THEN NewPayment(m) ELSE ReplayStep(f[i - 1], s[i])]
    OBVIOUS
  <2> HIDE DEF f
  <2>2. QED
    BY <2>1 DEF IsRun
<1>2. ASSUME NEW i \in Nat, i \in S
      PROVE  i + 1 \in S
  <2>1. PICK f : IsRun(f, m, s, i)
    BY <1>2
  <2> DEFINE g == [j \in 0..(i + 1) |->
                     IF j = i + 1 THEN ReplayStep(f[i], s[i + 1]) ELSE f[j]]
  <2>2. \A j \in 0..i : f[j] = IF j = 0 THEN NewPayment(m) ELSE ReplayStep(f[j - 1], s[j])
    BY <2>1 DEF IsRun
  <2>3. g[i + 1] = ReplayStep(g[i], s[i + 1])
    OBVIOUS
  <2>4. \A j \in 0..i : g[j] = f[j]
    OBVIOUS
  <2>5. \A j \in 0..(i + 1) :
          g[j] = IF j = 0 THEN NewPayment(m) ELSE ReplayStep(g[j - 1], s[j])
    <3> TAKE j \in 0..(i + 1)
    <3>1. CASE j = i + 1
      BY <2>3, <3>1
    <3>2. CASE j = 0
      BY <2>2, <2>4, <3>2
    <3>3. CASE j \in 1..i
      BY <2>2, <2>4, <3>3
    <3>4. QED
      BY <3>1, <3>2, <3>3
  <2>6. g = [j \in 0..(i + 1) |-> g[j]]
    OBVIOUS
  <2> HIDE DEF g
  <2>7. IsRun(g, m, s, i + 1)
    BY <2>5, <2>6 DEF IsRun
  <2>8. QED
    BY <2>7
<1> HIDE DEF S
<1>3. n \in S
  BY <1>1, <1>2, SetInduction
<1>4. QED
  BY <1>3 DEF S

\* Runs over the same events go through the same aggregates.
LEMMA RunsAgree ==
  ASSUME NEW m, NEW s, NEW t, NEW n \in Nat, NEW k \in Nat, n <= k,
         \A i \in 1..n : s[i] = t[i],
         NEW f, IsRun(f, m, s, n), NEW g, IsRun(g, m, t, k)
  PROVE  f[n] = g[n]
<1> DEFINE S == {i \in Nat : i <= n => f[i] = g[i]}
<1>1. \A i \in 0..n : f[i] = IF i = 0 THEN NewPayment(m) ELSE ReplayStep(f[i - 1], s[i])
  BY DEF IsRun
<1>2. \A i \in 0..k : g[i] = IF i = 0 THEN NewPayment(m) ELSE ReplayStep(g[i - 1], t[i])
  BY DEF IsRun
<1>3. 0 \in S
  BY <1>1, <1>2
<1>4. ASSUME NEW i \in Nat, i \in S
      PROVE  i + 1 \in S
  <2> SUFFICES ASSUME i + 1 <= n
               PROVE  f[i + 1] = g[i + 1]
    OBVIOUS
  <2>1. i + 1 \in 0..n /\ i + 1 \in 0..k /\ i + 1 # 0 /\ (i + 1) - 1 = i /\ i + 1 \in 1..n
    OBVIOUS
  <2>2. f[i] = g[i]
    BY <1>4
  <2>3. f[i + 1] = ReplayStep(f[i], s[i + 1]) /\ g[i + 1] = ReplayStep(g[i], t[i + 1])
    BY <1>1, <1>2, <2>1
  <2>4. QED
    BY <2>1, <2>2, <2>3
<1> HIDE DEF S
<1>5. n \in S
  BY <1>3, <1>4, SetInduction
<1>6. QED
  BY <1>5 DEF S

\* Replay is what any run over the whole stream ends with.
LEMMA ReplayRuns ==
  ASSUME NEW m, NEW s, Len(s) \in Nat
  PROVE  \E f : IsRun(f, m, s, Len(s)) /\ Replay(m, s) = f[Len(s)]
<1> DEFINE f == CHOOSE g : g = [n \in 0..Len(s) |->
                  IF n = 0 THEN NewPayment(m) ELSE ReplayStep(g[n - 1], s[n])]
<1>1. PICK h : IsRun(h, m, s, Len(s))
  BY RunExists
<1>2. IsRun(f, m, s, Len(s))
  BY <1>1 DEF IsRun
<1>3. Replay(m, s) = f[Len(s)]
  BY DEF Replay
<1> HIDE DEF f
<1>4. QED
  BY <1>2, <1>3

\* Nothing to replay.
LEMMA ReplayNothing == \A m : Replay(m, << >>) = NewPayment(m)
<1> TAKE m
<1>1. Len(<< >>) = 0
  OBVIOUS
<1>2. PICK f : IsRun(f, m, << >>, 0) /\ Replay(m, << >>) = f[0]
  BY <1>1, ReplayRuns
<1>3. f[0] = NewPayment(m)
  BY <1>2 DEF IsRun
<1>4. QED
  BY <1>2, <1>3

\* One more event, one more step.
LEMMA ReplayOneMore ==
  ASSUME NEW m, NEW S, NEW s \in Seq(S), NEW e \in S
  PROVE  Replay(m, Append(s, e)) = ReplayStep(Replay(m, s), e)
<1> DEFINE t == Append(s, e)
           n == Len(s)
<1>1. /\ n \in Nat /\ Len(t) = n + 1 /\ t[n + 1] = e
      /\ \A i \in 1..n : s[i] = t[i]
  OBVIOUS
<1> HIDE DEF t, n
<1>2. PICK f : IsRun(f, m, s, n) /\ Replay(m, s) = f[n]
  BY <1>1, ReplayRuns DEF n
<1>3. PICK g : IsRun(g, m, t, n + 1) /\ Replay(m, t) = g[n + 1]
  BY <1>1, ReplayRuns
<1>4. g[n + 1] = ReplayStep(g[n], t[n + 1])
  BY <1>1, <1>3 DEF IsRun
<1>5. f[n] = g[n]
  BY <1>1, <1>2, <1>3, RunsAgree
<1>6. QED
  BY <1>1, <1>2, <1>3, <1>4, <1>5 DEF t

-----------------------------------------------------------------------------
(* What a legal event does to the aggregate, kind by kind.                 *)

\* A new payment is one.
LEMMA NewPaymentType == \A m \in Message : NewPayment(m) \in PaymentRecord
BY DEF NewPayment, PaymentRecord, PaymentState

\* What event e does to the fields the properties read: p before, q after.
Moved(p, e, q) ==
  \/ /\ e.kind = "Validated"
     /\ p.state = "CREATED" /\ q.state = "VALIDATED"
     /\ q.risk = p.risk /\ q.digest = p.digest
     /\ q.queries = p.queries /\ q.lastQueryAt = p.lastQueryAt
  \/ /\ e.kind = "RiskChecked"
     /\ p.state = "VALIDATED" /\ p.risk = None
     /\ q.risk = e.outcome /\ q.digest = p.digest
     /\ \/ e.outcome = "allow"  /\ q.state = "VALIDATED"
        \/ e.outcome = "hold"   /\ q.state = "HELD"
        \/ e.outcome = "refuse" /\ q.state = "REFUSED"
     /\ q.queries = p.queries /\ q.lastQueryAt = p.lastQueryAt
  \/ /\ e.kind = "HoldParked"
     /\ p.state = "HELD" /\ p.digest = None /\ q.state = "HELD"
     /\ q.risk = p.risk /\ q.digest = e.digest /\ e.digest \in Digest
     /\ q.queries = p.queries /\ q.lastQueryAt = p.lastQueryAt
  \/ /\ e.kind = "HoldReleased"
     /\ p.state = "HELD" /\ q.state = "SUBMITTED"
     /\ q.risk = p.risk /\ q.digest = p.digest
     /\ p.digest = e.digest /\ e.digest \in Digest
     /\ q.queries = p.queries /\ q.lastQueryAt = p.lastQueryAt
  \/ /\ e.kind = "HoldCancelled"
     /\ p.state = "HELD" /\ q.state = "CANCELLED"
     /\ q.risk = p.risk /\ q.digest = None
     /\ q.queries = p.queries /\ q.lastQueryAt = p.lastQueryAt
  \/ /\ e.kind = "Submitted"
     /\ p.state = "VALIDATED" /\ q.state = "SUBMITTED"
     /\ q.risk = p.risk /\ q.digest = p.digest
     /\ q.queries = p.queries /\ q.lastQueryAt = p.lastQueryAt
  \/ /\ e.kind = "Published"
     /\ p.state = "SUBMITTED" /\ q.state = "ACK_PENDING"
     /\ q.risk = p.risk /\ q.digest = p.digest
     /\ q.queries = p.queries /\ q.lastQueryAt = p.lastQueryAt
  \/ /\ e.kind = "AdviceReceived"
     /\ p.state \in {"ACK_PENDING", "TIMEOUT_UNRESOLVED", "SETTLED"}
     /\ q.state = AfterAdvice(p.state, e.status)
     /\ q.risk = p.risk /\ q.digest = p.digest
     /\ q.queries = p.queries /\ q.lastQueryAt = p.lastQueryAt
  \/ /\ e.kind = "TimeoutDeclared"
     /\ p.state = "ACK_PENDING" /\ q.state = "TIMEOUT_UNRESOLVED"
     /\ q.risk = p.risk /\ q.digest = p.digest
     /\ q.queries = p.queries /\ q.lastQueryAt = p.lastQueryAt
  \/ /\ e.kind = "QuerySent"
     /\ p.state = "TIMEOUT_UNRESOLVED" /\ q.state = "TIMEOUT_UNRESOLVED"
     /\ q.risk = p.risk /\ q.digest = p.digest
     /\ q.queries = p.queries + 1 /\ q.lastQueryAt = e.at

\* A legal event leaves an aggregate, moved like this.
LEMMA Effect ==
  ASSUME NEW p \in PaymentRecord, NEW e \in PaymentEvent, Legal(p, e)
  PROVE  After(p, e) \in PaymentRecord /\ Moved(p, e, After(p, e))
<1> DEFINE q == After(p, e)
<1>1. CASE e = Validated
  <2>1. p.state = "CREATED" /\ e.kind = "Validated"
    BY <1>1 DEF Legal, Validated
  <2>2. q = [p EXCEPT !.state = "VALIDATED"]
    BY <1>1 DEF After, Validated
  <2>3. QED
    BY <2>1, <2>2 DEF PaymentRecord, PaymentState, Moved
<1>2. CASE e = Submitted
  <2>1. p.state = "VALIDATED" /\ e.kind = "Submitted"
    BY <1>2 DEF Legal, Submitted
  <2>2. q = [p EXCEPT !.state = "SUBMITTED"]
    BY <1>2 DEF After, Submitted
  <2>3. QED
    BY <2>1, <2>2 DEF PaymentRecord, PaymentState, Moved
<1>3. CASE e = TimeoutDeclared
  <2>1. p.state = "ACK_PENDING" /\ e.kind = "TimeoutDeclared"
    BY <1>3 DEF Legal, TimeoutDeclared
  <2>2. q = [p EXCEPT !.state = "TIMEOUT_UNRESOLVED"]
    BY <1>3 DEF After, TimeoutDeclared
  <2>3. QED
    BY <2>1, <2>2 DEF PaymentRecord, PaymentState, Moved
<1>4. CASE \E o \in RiskOutcome, t \in Time : e = RiskChecked(o, t)
  <2>1. PICK o \in RiskOutcome, t \in Time : e = RiskChecked(o, t)
    BY <1>4
  <2>2. /\ p.state = "VALIDATED" /\ p.risk = None
        /\ e.kind = "RiskChecked" /\ e.outcome = o
    BY <2>1 DEF Legal, RiskChecked, RiskCheckable
  <2>3. q = [p EXCEPT !.state  = AfterRisk(o), !.risk = o,
                      !.heldAt = IF o = "hold" THEN t ELSE @]
    BY <2>1 DEF After, RiskChecked
  <2>4. /\ \/ o = "allow"  /\ AfterRisk(o) = "VALIDATED"
           \/ o = "hold"   /\ AfterRisk(o) = "HELD"
           \/ o = "refuse" /\ AfterRisk(o) = "REFUSED"
        /\ AfterRisk(o) \in PaymentState
    BY DEF RiskOutcome, AfterRisk, PaymentState
  <2>5. /\ q \in PaymentRecord /\ q.state = AfterRisk(o) /\ q.risk = o
        /\ q.digest = p.digest /\ q.queries = p.queries
        /\ q.lastQueryAt = p.lastQueryAt
    BY <2>3, <2>4 DEF PaymentRecord
  <2>6. QED
    BY <2>2, <2>4, <2>5 DEF Moved
<1>5. CASE \E d \in Digest : e = HoldParked(d)
  <2>1. PICK d \in Digest : e = HoldParked(d)
    BY <1>5
  <2>2. /\ p.state = "HELD" /\ p.digest = None
        /\ e.kind = "HoldParked" /\ e.digest = d
    BY <2>1 DEF Legal, HoldParked
  <2>3. q = [p EXCEPT !.digest = d]
    BY <2>1 DEF After, HoldParked
  <2>4. QED
    BY <2>2, <2>3 DEF PaymentRecord, Moved
<1>6. CASE \E d \in Digest, b \in Actor, t \in Time : e = HoldReleased(d, b, t)
  <2>1. PICK d \in Digest, b \in Actor, t \in Time : e = HoldReleased(d, b, t)
    BY <1>6
  <2>2. /\ p.state = "HELD" /\ p.digest = d
        /\ e.kind = "HoldReleased" /\ e.digest = d
    BY <2>1 DEF Legal, HoldReleased, Releasable
  <2> DEFINE r == [action |-> "released", by |-> b, at |-> t]
  <2>3. q = [p EXCEPT !.state = "SUBMITTED", !.resolution = r]
    BY <2>1 DEF After, HoldReleased
  <2>4. r \in HoldResolution
    BY DEF HoldResolution, HoldAction
  <2> HIDE DEF r
  <2>5. QED
    BY <2>2, <2>3, <2>4 DEF PaymentRecord, PaymentState, Moved
<1>7. CASE \E b \in Actor, t \in Time : e = HoldCancelled(b, t)
  <2>1. PICK b \in Actor, t \in Time : e = HoldCancelled(b, t)
    BY <1>7
  <2>2. p.state = "HELD" /\ e.kind = "HoldCancelled"
    BY <2>1 DEF Legal, HoldCancelled
  <2> DEFINE r == [action |-> "cancelled", by |-> b, at |-> t]
  <2>3. q = [p EXCEPT !.state = "CANCELLED", !.digest = None, !.resolution = r]
    BY <2>1 DEF After, HoldCancelled
  <2>4. r \in HoldResolution
    BY DEF HoldResolution, HoldAction
  <2> HIDE DEF r
  <2>5. QED
    BY <2>2, <2>3, <2>4 DEF PaymentRecord, PaymentState, Moved
<1>8. CASE \E t \in Time : e = Published(t)
  <2>1. PICK t \in Time : e = Published(t)
    BY <1>8
  <2>2. p.state = "SUBMITTED" /\ e.kind = "Published"
    BY <2>1 DEF Legal, Published
  <2>3. q = [p EXCEPT !.state = "ACK_PENDING", !.publishedAt = t]
    BY <2>1 DEF After, Published
  <2>4. QED
    BY <2>2, <2>3 DEF PaymentRecord, PaymentState, Moved
<1>9. CASE \E s \in AdviceStatus : e = AdviceReceived(s)
  <2>1. PICK s \in AdviceStatus : e = AdviceReceived(s)
    BY <1>9
  <2>2. /\ p.state \in {"ACK_PENDING", "TIMEOUT_UNRESOLVED", "SETTLED"}
        /\ e.kind = "AdviceReceived" /\ e.status = s
    BY <2>1 DEF Legal, AdviceReceived
  <2>3. q = [p EXCEPT !.state = AfterAdvice(@, s), !.advice = s]
    BY <2>1 DEF After, AdviceReceived
  <2>4. AfterAdvice(p.state, s) \in PaymentState
    BY <2>2 DEF AfterAdvice, PaymentState
  <2>5. QED
    BY <2>2, <2>3, <2>4 DEF PaymentRecord, Moved
<1>10. CASE \E t \in Time : e = QuerySent(t)
  <2>1. PICK t \in Time : e = QuerySent(t)
    BY <1>10
  <2>2. p.state = "TIMEOUT_UNRESOLVED" /\ e.kind = "QuerySent" /\ e.at = t
    BY <2>1 DEF Legal, QuerySent, Queryable
  <2>3. q = [p EXCEPT !.queries = @ + 1, !.lastQueryAt = t]
    BY <2>1 DEF After, QuerySent
  <2>4. p.queries + 1 \in Nat
    BY DEF PaymentRecord
  <2>5. q \in PaymentRecord
    BY <2>3, <2>4 DEF PaymentRecord
  <2>6. /\ q.state = p.state /\ q.risk = p.risk /\ q.digest = p.digest
        /\ q.queries = p.queries + 1 /\ q.lastQueryAt = t
    BY <2>3 DEF PaymentRecord
  <2> HIDE DEF q
  <2>7. QED
    BY <2>2, <2>5, <2>6 DEF q, Moved
<1>11. QED
  BY <1>1, <1>2, <1>3, <1>4, <1>5, <1>6, <1>7, <1>8, <1>9, <1>10 DEF PaymentEvent

-----------------------------------------------------------------------------
(* The invariant: what the state of a payment says of its history.         *)

OnceKinds == {{"Submitted", "HoldReleased"}, {"Published"}, {"RiskChecked"},
              {"HoldParked"}, {"HoldReleased", "HoldCancelled"},
              {"TimeoutDeclared"}}

\* An aggregate that has had its event of these kinds, and takes no other.
Spent(kinds, p) ==
  /\ "Submitted" \in kinds       => p.state \in Cleared
  /\ "Published" \in kinds       => p.state \in Cleared \ {"SUBMITTED"}
  /\ "RiskChecked" \in kinds     => p.risk # None
  /\ "HoldParked" \in kinds      => p.digest # None \/ p.state = "CANCELLED"
  /\ "HoldCancelled" \in kinds   => p.state \in Cleared \cup {"CANCELLED"}
  /\ "TimeoutDeclared" \in kinds =>
       p.state \in {"TIMEOUT_UNRESOLVED", "SETTLED", "REJECTED"}

OnceInv ==
  \A kinds \in OnceKinds : /\ At(kinds) # {} => Spent(kinds, payment)
                           /\ \A i, j \in At(kinds) : i = j

Decisive == Advised(SettlesFunds \cup {"RJCT"})

OutcomeInv ==
  /\ Decisive = {} <=> payment.state \notin {"SETTLED", "REJECTED"}
  /\ Decisive # {} =>
       \E i \in Decisive :
         /\ \A j \in Decisive : i <= j
         /\ payment.state = IF stream[i].status = "RJCT" THEN "REJECTED" ELSE "SETTLED"

JudgementInv ==
  /\ payment.digest # None =>
       \E j \in At({"HoldParked"}) : stream[j].digest = payment.digest
  /\ \A i \in At({"RiskChecked"}) : stream[i].outcome = payment.risk
  /\ payment.state \in {"CREATED", "VALIDATED"} => payment.risk \in {None, "allow"}
  /\ At({"Submitted"}) # {} => payment.state \in Cleared
  /\ ClearedOnlyAsJudged

QueryInv ==
  LET asked == At({"QuerySent"})
  IN  /\ payment.state = "TIMEOUT_UNRESOLVED" => At({"TimeoutDeclared"}) # {}
      /\ \A i \in asked : \E j \in At({"TimeoutDeclared"}) : j < i
      /\ payment.queries = Cardinality(asked)
      /\ asked # {} => \E i \in asked : /\ \A j \in asked : j <= i
                                        /\ payment.lastQueryAt = stream[i].at

StreamInv ==
  TypeOK /\ ReplayRebuilds /\ OnceInv /\ OutcomeInv /\ JudgementInv /\ QueryInv

-----------------------------------------------------------------------------
(* An append.                                                              *)

\* The aggregate the append is judged on is the one that was moved along, and
\* both move on alike.
LEMMA Appending ==
  ASSUME TypeOK, ReplayRebuilds, NEW e \in PaymentEvent, AppendTo(e)
  PROVE  /\ Legal(payment, e) /\ payment' = After(payment, e)
         /\ stream' = Append(stream, e)
         /\ TypeOK' /\ ReplayRebuilds'
<1>1. /\ Legal(payment, e) /\ payment' = After(payment, e)
      /\ stream' = Append(stream, e) /\ message' = message
  BY DEF AppendTo, ReplayRebuilds, Apply
<1>2. payment \in PaymentRecord /\ payment # None
  BY PaymentAssumption DEF TypeOK
<1>3. payment' \in PaymentRecord
  BY <1>1, <1>2, Effect
<1>4. TypeOK'
  BY <1>1, <1>3 DEF TypeOK
<1>5. Replay(message, Append(stream, e)) = ReplayStep(payment, e)
  BY ReplayOneMore DEF TypeOK, ReplayRebuilds
<1>6. ReplayStep(payment, e) = payment'
  BY <1>1, <1>2 DEF ReplayStep
<1>7. QED
  BY <1>1, <1>4, <1>5, <1>6 DEF ReplayRebuilds

\* Where the events are afterwards.
LEMMA Positions ==
  ASSUME stream \in Seq(PaymentEvent), NEW e \in PaymentEvent,
         stream' = Append(stream, e)
  PROVE  LET n == Len(stream) + 1
         IN  /\ n \in Nat /\ n \in DOMAIN stream' /\ stream'[n] = e
             /\ DOMAIN stream' = DOMAIN stream \cup {n}
             /\ \A i \in DOMAIN stream : i \in Nat /\ i < n /\ stream'[i] = stream[i]
<1>1. DOMAIN stream = 1..Len(stream) /\ Len(stream) \in Nat
  OBVIOUS
<1>2. DOMAIN stream' = 1..(Len(stream) + 1)
  OBVIOUS
<1>3. QED
  BY <1>1, <1>2

\* The events of some kinds afterwards.
LEMMA AtAfter ==
  ASSUME stream \in Seq(PaymentEvent), NEW e \in PaymentEvent,
         stream' = Append(stream, e), NEW kinds
  PROVE  /\ At(kinds)' = IF e.kind \in kinds THEN At(kinds) \cup {Len(stream) + 1}
                         ELSE At(kinds)
         /\ At(kinds) \subseteq DOMAIN stream
BY Positions DEF At

\* Each kind that comes once finds its mark unset, and sets it.
LEMMA SpentOnce ==
  ASSUME NEW p \in PaymentRecord, NEW e \in PaymentEvent, Legal(p, e),
         NEW kinds \in OnceKinds
  PROVE  /\ Spent(kinds, p) => Spent(kinds, After(p, e)) /\ e.kind \notin kinds
         /\ e.kind \in kinds => Spent(kinds, After(p, e))
<1> DEFINE q == After(p, e)
<1>1. None \notin Digest /\ None \notin RiskOutcome
  BY PaymentAssumption
<1>2. \A o \in {"allow", "hold", "refuse"} : o # None
  BY <1>1 DEF RiskOutcome
<1> USE Effect, <1>1, <1>2 DEF Moved, Spent, Cleared, AfterAdvice
<1>3. CASE kinds = {"Submitted", "HoldReleased"}
  BY <1>3
<1>4. CASE kinds = {"Published"}
  BY <1>4
<1>5. CASE kinds = {"RiskChecked"}
  BY <1>5
<1>6. CASE kinds = {"HoldParked"}
  BY <1>6
<1>7. CASE kinds = {"HoldReleased", "HoldCancelled"}
  BY <1>7
<1>8. CASE kinds = {"TimeoutDeclared"}
  BY <1>8
<1>9. QED
  BY <1>3, <1>4, <1>5, <1>6, <1>7, <1>8 DEF OnceKinds

\* So no second event of those kinds is appended.
LEMMA OnceStep ==
  ASSUME StreamInv, NEW e \in PaymentEvent, AppendTo(e)
  PROVE  OnceInv'
<1> SUFFICES ASSUME NEW kinds \in OnceKinds
             PROVE  /\ At(kinds)' # {} => Spent(kinds, payment')
                    /\ \A i, j \in At(kinds)' : i = j
  BY DEF OnceInv
<1>1. /\ Legal(payment, e) /\ payment' = After(payment, e)
      /\ stream' = Append(stream, e)
  BY Appending DEF StreamInv
<1>2. /\ Spent(kinds, payment) => Spent(kinds, payment') /\ e.kind \notin kinds
      /\ e.kind \in kinds => Spent(kinds, payment')
  BY <1>1, SpentOnce DEF StreamInv, TypeOK
<1>3. At(kinds)' = IF e.kind \in kinds THEN At(kinds) \cup {Len(stream) + 1}
                   ELSE At(kinds)
  BY <1>1, AtAfter DEF StreamInv, TypeOK
<1>4. /\ At(kinds) # {} => Spent(kinds, payment)
      /\ \A i, j \in At(kinds) : i = j
  BY DEF StreamInv, OnceInv
<1>5. QED
  BY <1>2, <1>3, <1>4

\* The first decisive advice stays the one that decided.
LEMMA OutcomeStep ==
  ASSUME StreamInv, NEW e \in PaymentEvent, AppendTo(e)
  PROVE  OutcomeInv'
<1> DEFINE n == Len(stream) + 1
           decides == e.kind = "AdviceReceived" /\ e.status \in SettlesFunds \cup {"RJCT"}
<1>1. /\ Legal(payment, e) /\ payment' = After(payment, e)
      /\ stream' = Append(stream, e) /\ payment \in PaymentRecord
      /\ stream \in Seq(PaymentEvent)
  BY Appending DEF StreamInv, TypeOK
<1>2. /\ n \in Nat /\ stream'[n] = e
      /\ \A i \in DOMAIN stream : i \in Nat /\ i < n /\ stream'[i] = stream[i]
  BY <1>1, Positions
<1>3. At({"AdviceReceived"})' = IF e.kind \in {"AdviceReceived"}
                                THEN At({"AdviceReceived"}) \cup {n}
                                ELSE At({"AdviceReceived"})
  BY <1>1, AtAfter
<1>4. Decisive \subseteq DOMAIN stream
  BY DEF Decisive, Advised, At
<1>5. At({"AdviceReceived"}) \subseteq DOMAIN stream
  BY DEF At
<1> HIDE DEF n
<1>6. Decisive' = IF decides THEN Decisive \cup {n} ELSE Decisive
  BY <1>2, <1>3, <1>5 DEF Decisive, Advised
<1>7. CASE ~decides
  <2>1. payment'.state = payment.state
          \/ {payment.state, payment'.state} \cap {"SETTLED", "REJECTED"} = {}
    BY <1>1, <1>7, Effect DEF Moved, AfterAdvice
  <2>2. Decisive' = Decisive
    BY <1>6, <1>7
  <2>3. CASE Decisive = {}
    BY <2>1, <2>2, <2>3 DEF StreamInv, OutcomeInv
  <2>4. CASE Decisive # {}
    <3>1. PICK i \in Decisive :
            /\ \A j \in Decisive : i <= j
            /\ payment.state = IF stream[i].status = "RJCT" THEN "REJECTED" ELSE "SETTLED"
      BY <2>4 DEF StreamInv, OutcomeInv
    <3>2. payment'.state = payment.state /\ stream'[i] = stream[i]
      BY <1>2, <1>4, <2>1, <3>1
    <3>3. QED
      BY <2>2, <3>1, <3>2 DEF OutcomeInv
  <2>5. QED
    BY <2>3, <2>4
<1>8. CASE decides /\ Decisive = {}
  <2>1. payment.state \notin {"SETTLED", "REJECTED"}
    BY <1>8 DEF StreamInv, OutcomeInv
  <2>2. payment'.state = IF e.status = "RJCT" THEN "REJECTED" ELSE "SETTLED"
    BY <1>1, <1>8, <2>1, Effect DEF Moved, AfterAdvice, SettlesFunds
  <2>3. Decisive' = {n}
    BY <1>6, <1>8
  <2>4. QED
    BY <1>2, <2>2, <2>3 DEF OutcomeInv
<1>9. CASE decides /\ Decisive # {}
  <2>1. PICK i \in Decisive :
          /\ \A j \in Decisive : i <= j
          /\ payment.state = IF stream[i].status = "RJCT" THEN "REJECTED" ELSE "SETTLED"
    BY <1>9 DEF StreamInv, OutcomeInv
  <2>2. payment.state = "SETTLED" /\ payment'.state = "SETTLED"
    BY <1>1, <1>9, <2>1, Effect DEF Moved, AfterAdvice
  <2>3. i < n /\ stream'[i] = stream[i] /\ i \in Nat
    BY <1>2, <1>4, <2>1
  <2>4. i \in Decisive' /\ \A j \in Decisive' : i <= j
    BY <1>2, <1>6, <1>9, <2>1, <2>3
  <2>5. QED
    BY <2>1, <2>2, <2>3, <2>4 DEF OutcomeInv
<1>10. QED
  BY <1>7, <1>8, <1>9

\* A release finds the digest that was parked, a submission the check that
\* allowed it.
LEMMA JudgementStep ==
  ASSUME StreamInv, NEW e \in PaymentEvent, AppendTo(e)
  PROVE  JudgementInv'
<1> DEFINE n == Len(stream) + 1
<1>1. /\ Legal(payment, e) /\ payment' = After(payment, e)
      /\ stream' = Append(stream, e) /\ payment \in PaymentRecord
      /\ stream \in Seq(PaymentEvent)
  BY Appending DEF StreamInv, TypeOK
<1>2. /\ n \in Nat /\ stream'[n] = e
      /\ \A i \in DOMAIN stream : i \in Nat /\ i < n /\ stream'[i] = stream[i]
  BY <1>1, Positions
<1>3. \A kinds : /\ At(kinds)' = IF e.kind \in kinds THEN At(kinds) \cup {n} ELSE At(kinds)
                 /\ At(kinds) \subseteq DOMAIN stream
  BY <1>1, AtAfter
<1> HIDE DEF n
<1>4. \A kinds : \A i \in At(kinds) : /\ i \in At(kinds)' /\ stream'[i] = stream[i]
                                      /\ i < n
  BY <1>2, <1>3
<1>5. \A kinds : \A i \in At(kinds)' :
        i \in At(kinds) \/ (i = n /\ e.kind \in kinds /\ stream'[i] = e)
  BY <1>2, <1>3
<1>6. \A kinds : e.kind \in kinds => n \in At(kinds)'
  BY <1>3
<1>7. None \notin Digest
  BY PaymentAssumption
<1>8. JudgementInv
  BY DEF StreamInv
<1>9. payment'.digest # None =>
        \E j \in At({"HoldParked"})' : stream'[j].digest = payment'.digest
  <2> HAVE payment'.digest # None
  <2>1. CASE e.kind = "HoldParked"
    <3>1. n \in At({"HoldParked"})' /\ stream'[n].digest = payment'.digest
      BY <1>1, <1>2, <1>6, <2>1, Effect DEF Moved
    <3>2. QED
      BY <3>1
  <2>2. CASE e.kind # "HoldParked"
    <3>1. payment'.digest = payment.digest
      BY <1>1, <2>2, Effect DEF Moved
    <3>2. PICK j \in At({"HoldParked"}) : stream[j].digest = payment.digest
      BY <1>8, <3>1 DEF JudgementInv
    <3>3. QED
      BY <1>4, <3>1, <3>2
  <2>3. QED
    BY <2>1, <2>2
<1>10. \A i \in At({"RiskChecked"})' : stream'[i].outcome = payment'.risk
  <2> TAKE i \in At({"RiskChecked"})'
  <2>1. CASE i \in At({"RiskChecked"})
    <3>1. payment.risk # None
      BY <2>1 DEF StreamInv, OnceInv, OnceKinds, Spent
    <3>2. payment'.risk = payment.risk
      BY <1>1, <3>1, Effect DEF Moved
    <3>3. stream[i].outcome = payment.risk /\ stream'[i] = stream[i]
      BY <1>4, <1>8, <2>1 DEF JudgementInv
    <3>4. QED
      BY <3>2, <3>3
  <2>2. CASE i = n /\ e.kind \in {"RiskChecked"} /\ stream'[i] = e
    BY <1>1, <2>2, Effect DEF Moved
  <2>3. QED
    BY <1>5, <2>1, <2>2
<1>11. payment'.state \in {"CREATED", "VALIDATED"} => payment'.risk \in {None, "allow"}
  BY <1>1, <1>8, Effect DEF Moved, JudgementInv, AfterAdvice
<1>12. At({"Submitted"})' # {} => payment'.state \in Cleared
  <2>1. CASE e.kind = "Submitted"
    BY <1>1, <2>1, Effect DEF Moved, Cleared
  <2>2. CASE e.kind # "Submitted"
    <3>1. At({"Submitted"})' = At({"Submitted"})
      BY <1>3, <2>2
    <3>2. payment.state \in Cleared => payment'.state \in Cleared
      BY <1>1, Effect DEF Moved, Cleared, AfterAdvice
    <3>3. QED
      BY <1>8, <3>1, <3>2 DEF JudgementInv
  <2>3. QED
    BY <2>1, <2>2
<1>13. ASSUME NEW i \in At({"HoldReleased"})'
       PROVE  \E j \in At({"HoldParked"})' : j < i /\ stream'[j].digest = stream'[i].digest
  <2>1. CASE i \in At({"HoldReleased"})
    <3>1. PICK j \in At({"HoldParked"}) : j < i /\ stream[j].digest = stream[i].digest
      BY <1>8, <2>1 DEF JudgementInv, ClearedOnlyAsJudged
    <3>2. QED
      BY <1>4, <2>1, <3>1
  <2>2. CASE i = n /\ e.kind \in {"HoldReleased"} /\ stream'[i] = e
    <3>1. payment.digest = e.digest /\ e.digest # None
      BY <1>1, <1>7, <2>2, Effect DEF Moved
    <3>2. PICK j \in At({"HoldParked"}) : stream[j].digest = payment.digest
      BY <1>8, <3>1 DEF JudgementInv
    <3>3. QED
      BY <1>4, <2>2, <3>1, <3>2
  <2>3. QED
    BY <1>5, <2>1, <2>2
<1>14. ASSUME NEW i \in At({"RiskChecked"})', NEW j \in At({"Submitted"})'
       PROVE  stream'[i].outcome = "allow"
  <2>1. CASE i \in At({"RiskChecked"}) /\ j \in At({"Submitted"})
    BY <1>4, <1>8, <2>1 DEF JudgementInv, ClearedOnlyAsJudged
  <2>2. CASE i \in At({"RiskChecked"}) /\ e.kind \in {"Submitted"}
    <3>1. payment.state = "VALIDATED"
      BY <1>1, <2>2, Effect DEF Moved
    <3>2. payment.risk \in {None, "allow"} /\ stream[i].outcome = payment.risk
      BY <1>8, <2>2, <3>1 DEF JudgementInv
    <3>3. payment.risk # None
      BY <2>2 DEF StreamInv, OnceInv, OnceKinds, Spent
    <3>4. QED
      BY <1>4, <2>2, <3>2, <3>3
  <2>3. CASE e.kind \in {"RiskChecked"} /\ j \in At({"Submitted"})
    <3>1. payment.state \in Cleared
      BY <1>8, <2>3 DEF JudgementInv
    <3>2. payment.state = "VALIDATED"
      BY <1>1, <2>3, Effect DEF Moved
    <3>3. QED
      BY <3>1, <3>2 DEF Cleared
  <2>4. CASE e.kind \in {"RiskChecked"} /\ e.kind \in {"Submitted"}
    BY <2>4
  <2>5. QED
    BY <1>5, <2>1, <2>2, <2>3, <2>4
<1>15. ClearedOnlyAsJudged'
  BY <1>13, <1>14 DEF ClearedOnlyAsJudged
<1>16. QED
  BY <1>9, <1>10, <1>11, <1>12, <1>15 DEF JudgementInv

\* A query is counted, dated and preceded by the timeout.
LEMMA QueryStep ==
  ASSUME StreamInv, NEW e \in PaymentEvent, AppendTo(e)
  PROVE  QueryInv'
<1> DEFINE n == Len(stream) + 1
           asked == At({"QuerySent"})
           timeouts == At({"TimeoutDeclared"})
<1>1. /\ Legal(payment, e) /\ payment' = After(payment, e)
      /\ stream' = Append(stream, e) /\ payment \in PaymentRecord
      /\ stream \in Seq(PaymentEvent)
  BY Appending DEF StreamInv, TypeOK
<1>2. /\ n \in Nat /\ stream'[n] = e
      /\ \A i \in DOMAIN stream : i \in Nat /\ i < n /\ stream'[i] = stream[i]
  BY <1>1, Positions
<1>3. /\ asked' = IF e.kind \in {"QuerySent"} THEN asked \cup {n} ELSE asked
      /\ timeouts' = IF e.kind \in {"TimeoutDeclared"} THEN timeouts \cup {n} ELSE timeouts
      /\ asked \subseteq DOMAIN stream /\ timeouts \subseteq DOMAIN stream
  BY <1>1, AtAfter
<1>4. IsFiniteSet(asked) /\ n \notin asked
  <2>1. IsFiniteSet(1..Len(stream)) /\ DOMAIN stream = 1..Len(stream)
    BY <1>1, FS_Interval
  <2>2. IsFiniteSet(asked)
    BY <1>3, <2>1, FS_Subset
  <2>3. QED
    BY <1>2, <1>3, <2>2
<1>5. /\ payment.state = "TIMEOUT_UNRESOLVED" => timeouts # {}
      /\ \A i \in asked : \E j \in timeouts : j < i
      /\ payment.queries = Cardinality(asked)
      /\ asked # {} => \E i \in asked : /\ \A j \in asked : j <= i
                                        /\ payment.lastQueryAt = stream[i].at
  BY DEF StreamInv, QueryInv
<1> HIDE DEF n, asked, timeouts
<1>6. payment'.state = "TIMEOUT_UNRESOLVED" => timeouts' # {}
  BY <1>1, <1>3, <1>5, Effect DEF Moved, AfterAdvice
<1>7. CASE e.kind = "QuerySent"
  <2>1. /\ payment.state = "TIMEOUT_UNRESOLVED"
        /\ payment'.queries = payment.queries + 1 /\ payment'.lastQueryAt = e.at
    BY <1>1, <1>7, Effect DEF Moved
  <2>2. asked' = asked \cup {n} /\ timeouts' = timeouts
    BY <1>3, <1>7
  <2>3. \A i \in asked' : \E j \in timeouts' : j < i
    BY <1>2, <1>3, <1>5, <2>1, <2>2
  <2>4. payment'.queries = Cardinality(asked')
    BY <1>4, <1>5, <2>1, <2>2, FS_AddElement
  <2>5. /\ n \in asked' /\ \A j \in asked' : j <= n
        /\ payment'.lastQueryAt = stream'[n].at
    BY <1>2, <1>3, <2>1, <2>2
  <2>6. QED
    BY <1>6, <2>3, <2>4, <2>5 DEF QueryInv, asked, timeouts
<1>8. CASE e.kind # "QuerySent"
  <2>1. payment'.queries = payment.queries /\ payment'.lastQueryAt = payment.lastQueryAt
    BY <1>1, <1>8, Effect DEF Moved
  <2>2. asked' = asked /\ timeouts \subseteq timeouts'
    BY <1>3, <1>8
  <2>3. \A i \in asked' : \E j \in timeouts' : j < i
    BY <1>5, <2>2
  <2>4. asked' # {} => \E i \in asked' : /\ \A j \in asked' : j <= i
                                         /\ payment'.lastQueryAt = stream'[i].at
    BY <1>2, <1>3, <1>5, <2>1, <2>2
  <2>5. payment'.queries = Cardinality(asked')
    BY <1>5, <2>1, <2>2
  <2>6. QED
    BY <1>6, <2>3, <2>4, <2>5 DEF QueryInv, asked, timeouts
<1>9. QED
  BY <1>7, <1>8

-----------------------------------------------------------------------------
(* Theorems.                                                               *)

\* A new stream tells nothing, of a payment nothing has happened to.
LEMMA StreamStarts == Init => StreamInv
<1> SUFFICES ASSUME Init
             PROVE  StreamInv
  OBVIOUS
<1>1. /\ stream = << >> /\ message \in Message
      /\ payment = NewPayment(message)
  BY DEF Init
<1>2. \A kinds : At(kinds) = {}
  BY <1>1 DEF At
<1>3. Decisive = {}
  BY <1>2 DEF Decisive, Advised
<1>4. /\ payment.state = "CREATED" /\ payment.digest = None /\ payment.risk = None
      /\ payment.queries = 0
  BY <1>1 DEF NewPayment
<1>5. TypeOK
  BY <1>1, NewPaymentType DEF TypeOK
<1>6. ReplayRebuilds
  BY <1>1, ReplayNothing DEF ReplayRebuilds
<1>7. OnceInv
  BY <1>2 DEF OnceInv
<1>8. OutcomeInv
  BY <1>3, <1>4 DEF OutcomeInv
<1>9. JudgementInv
  BY <1>2, <1>4 DEF JudgementInv, ClearedOnlyAsJudged
<1>10. QueryInv
  BY <1>2, <1>4, FS_EmptySet DEF QueryInv
<1>11. QED
  BY <1>5, <1>6, <1>7, <1>8, <1>9, <1>10 DEF StreamInv

\* The inductive invariant.
THEOREM StreamInvariant == Spec => []StreamInv
<1>1. StreamInv /\ [Next]_vars => StreamInv'
  <2> SUFFICES ASSUME StreamInv, [Next]_vars
               PROVE  StreamInv'
    OBVIOUS
  <2>1. CASE UNCHANGED vars
    BY <2>1 DEF vars, StreamInv, TypeOK, ReplayRebuilds, OnceInv, OutcomeInv, Decisive,
                Advised, JudgementInv, ClearedOnlyAsJudged, QueryInv, At
  <2>2. CASE \E e \in PaymentEvent : AppendTo(e)
    <3>1. PICK e \in PaymentEvent : AppendTo(e)
      BY <2>2
    <3>2. TypeOK' /\ ReplayRebuilds'
      BY <3>1, Appending DEF StreamInv
    <3>3. QED
      BY <3>1, <3>2, OnceStep, OutcomeStep, JudgementStep, QueryStep DEF StreamInv
  <2>3. QED
    BY <2>1, <2>2 DEF Next
<1>2. QED
  BY <1>1, StreamStarts, PTL DEF Spec

\* Streams hold events, and the aggregate is one.
THEOREM StreamTypeCorrect == Spec => []TypeOK
<1>1. StreamInv => TypeOK
  BY DEF StreamInv
<1>2. QED
  BY <1>1, StreamInvariant, PTL

\* A restart loses nothing: replaying a stream of any length gives the
\* aggregate that was moved along with it (module comment of payment.rs).
THEOREM RestartLosesNothing == Spec => []ReplayRebuilds
<1>1. StreamInv => ReplayRebuilds
  BY DEF StreamInv
<1>2. QED
  BY <1>1, StreamInvariant, PTL

\* A payment is cleared, published, risk-checked, parked, resolved and declared
\* overdue at most once in its life.
THEOREM EachOnce == Spec => []OnceInALife
<1>1. StreamInv => OnceInALife
  <2> SUFFICES ASSUME StreamInv, NEW kinds \in OnceKinds
               PROVE  Cardinality(At(kinds)) <= 1
    BY DEF OnceInALife, OnceKinds
  <2>1. \A i, j \in At(kinds) : i = j
    BY DEF StreamInv, OnceInv
  <2>2. CASE At(kinds) = {}
    <3>1. Cardinality(At(kinds)) = 0
      BY <2>2, FS_EmptySet
    <3>2. QED
      BY <3>1
  <2>3. CASE At(kinds) # {}
    <3>1. PICK i \in At(kinds) : TRUE
      BY <2>3
    <3>2. At(kinds) = {i}
      BY <2>1, <3>1
    <3>3. Cardinality(At(kinds)) = 1
      BY <3>2, FS_Singleton
    <3>4. QED
      BY <3>3
  <2>4. QED
    BY <2>2, <2>3
<1>2. QED
  BY <1>1, StreamInvariant, PTL

\* The outcome is what the first decisive advice said (Payment::apply).
THEOREM FirstAdviceDecides == Spec => []FirstDecisiveAdviceWins
<1>1. StreamInv => FirstDecisiveAdviceWins
  <2> SUFFICES ASSUME StreamInv
               PROVE  FirstDecisiveAdviceWins
    OBVIOUS
  <2> DEFINE first == CHOOSE i \in Decisive : \A j \in Decisive : i <= j
  <2>1. Decisive = {} <=> payment.state \notin {"SETTLED", "REJECTED"}
    BY DEF StreamInv, OutcomeInv
  <2>2. ASSUME Decisive # {}
        PROVE  payment.state = IF stream[first].status = "RJCT"
                               THEN "REJECTED" ELSE "SETTLED"
    <3>1. PICK i \in Decisive :
            /\ \A j \in Decisive : i <= j
            /\ payment.state = IF stream[i].status = "RJCT" THEN "REJECTED" ELSE "SETTLED"
      BY <2>2 DEF StreamInv, OutcomeInv
    <3>2. first \in Decisive /\ \A j \in Decisive : first <= j
      BY <3>1
    <3>3. Decisive \subseteq Nat
      BY DEF Decisive, Advised, At, StreamInv, TypeOK
    <3> HIDE DEF first
    <3>4. first = i
      BY <3>1, <3>2, <3>3
    <3>5. QED
      BY <3>1, <3>4
  <2>3. QED
    BY <2>1, <2>2 DEF FirstDecisiveAdviceWins, Decisive
<1>2. QED
  BY <1>1, StreamInvariant, PTL

\* A release names the digest parked before it, and only a check that allowed
\* a payment comes with its submission.
THEOREM JudgedBeforeCleared == Spec => []ClearedOnlyAsJudged
<1>1. StreamInv => ClearedOnlyAsJudged
  BY DEF StreamInv, JudgementInv
<1>2. QED
  BY <1>1, StreamInvariant, PTL

\* Queries follow the timeout and are counted and dated exactly
\* (queries_sent and last_query_at_unix of Payment).
THEOREM QueriesAreOnRecord == Spec => []QueriesFollowTimeout
<1>1. StreamInv => QueriesFollowTimeout
  <2> SUFFICES ASSUME StreamInv
               PROVE  QueriesFollowTimeout
    OBVIOUS
  <2> DEFINE asked == At({"QuerySent"})
             last  == CHOOSE i \in asked : \A j \in asked : j <= i
  <2>1. /\ \A i \in asked : \E j \in At({"TimeoutDeclared"}) : j < i
        /\ payment.queries = Cardinality(asked)
    BY DEF StreamInv, QueryInv
  <2>2. ASSUME asked # {}
        PROVE  payment.lastQueryAt = stream[last].at
    <3>1. PICK i \in asked : /\ \A j \in asked : j <= i
                             /\ payment.lastQueryAt = stream[i].at
      BY <2>2 DEF StreamInv, QueryInv
    <3>2. last \in asked /\ \A j \in asked : j <= last
      BY <3>1
    <3>3. asked \subseteq Nat
      BY DEF At, StreamInv, TypeOK
    <3> HIDE DEF last, asked
    <3>4. last = i
      BY <3>1, <3>2, <3>3
    <3>5. QED
      BY <3>1, <3>4
  <2>3. QED
    BY <2>1, <2>2 DEF QueriesFollowTimeout
<1>2. QED
  BY <1>1, StreamInvariant, PTL
=============================================================================

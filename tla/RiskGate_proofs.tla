-------------------------- MODULE RiskGate_proofs --------------------------
(***************************************************************************)
(* Proofs about the risk gate: the slot counter counts provider calls, and *)
(* every verdict is the provider's on this payment or the policy's, for    *)
(* any number of callers, threads and payments and every environment the   *)
(* gateway accepts at start.                                               *)
(***************************************************************************)
EXTENDS RiskGate, FiniteSetTheorems, TLAPS

\* Callers that hold a slot and have not started their provider call.
Reserved == {c \in Caller : pc[c] = "reserved"}

\* The counter alone, without its bound.
CounterIsExact == inFlight = Cardinality(Calling) + Cardinality(Reserved)

WithinBudget == HasProvider(settings) => inFlight <= MaxInFlight(settings)

\* Who listens to a worker waits, with an empty channel, for an answer about
\* its own payment.
ListenersWait ==
  \A w \in Worker :
    listener[w] # None =>
      /\ pc[listener[w]] = "waiting"
      /\ inbox[listener[w]] = None
      /\ work[w] \in {"running", "unwound"}
      /\ subject[w] = about[listener[w]]

\* A channel has one sender.
OneListenerEach ==
  \A v, w \in Worker : listener[v] # None /\ listener[v] = listener[w] => v = w

\* What lies in a channel is about the payment its owner asked about.
InboxesAreOwn ==
  \A c \in Caller :
    inbox[c] # None =>
      /\ pc[c] = "waiting"
      /\ inbox[c] \in Decision => inbox[c] = Opinion[about[c]]

\* Verdicts belong to finished checks, and a configured gate always gives one.
VerdictsAtTheEnd ==
  \A c \in Caller :
    /\ verdict[c] # None => pc[c] = "done"
    /\ pc[c] = "done" /\ HasProvider(settings) => verdict[c] # None

\* What every step preserves, about answers.
AnswersInv ==
  /\ TypeOK
  /\ ListenersWait
  /\ OneListenerEach
  /\ InboxesAreOwn
  /\ VerdictsAtTheEnd
  /\ VerdictIsJustified

\* Only a gate with a provider has checks or threads under way, and they are
\* about payments.
UnderWay ==
  /\ \A c \in Caller : pc[c] \in {"reserved", "waiting"} => HasProvider(settings)
  /\ \A c \in Caller : pc[c] # "idle" => about[c] \in Subject
  /\ \A w \in Worker : work[w] # "free" => HasProvider(settings) /\ subject[w] \in Subject

\* What every step preserves, about slots.
SlotsInv == TypeOK /\ UnderWay /\ CounterIsExact /\ WithinBudget

-----------------------------------------------------------------------------
(* Types.                                                                  *)

\* The policy an accepted environment asks for is a decision.
LEMMA PolicyIsADecision ==
  ASSUME TypeOK, HasProvider(settings)
  PROVE  OnUnavailable(settings) \in Decision
<1>1. settings \in Setting /\ ~RefusedAtStart(settings)
  BY RiskAssumption DEF TypeOK
<1>2. settings.onUnavailable \in Decision \cup {"other", None}
  BY <1>1 DEF Setting
<1>3. settings.onUnavailable # "other" /\ settings.maxInFlight # 0
  BY <1>1, RiskAssumption DEF RefusedAtStart, HasProvider
<1> QED  BY <1>2, <1>3 DEF OnUnavailable, Decision

\* The budget it asks for is positive.
LEMMA BudgetIsPositive ==
  ASSUME TypeOK, HasProvider(settings)
  PROVE  MaxInFlight(settings) \in Nat \ {0}
<1>1. settings \in Setting /\ ~RefusedAtStart(settings)
  BY RiskAssumption DEF TypeOK
<1>2. settings.maxInFlight \in Nat \cup {None}
  BY <1>1 DEF Setting
<1>3. settings.maxInFlight # 0
  BY <1>1, RiskAssumption DEF RefusedAtStart, HasProvider
<1> QED  BY <1>2, <1>3, RiskAssumption DEF MaxInFlight

\* What the failure policy concludes is a verdict.
LEMMA PolicyVerdictTyped ==
  ASSUME TypeOK, HasProvider(settings), NEW source \in Source
  PROVE  PolicyVerdict(source) \in RiskVerdict /\ PolicyVerdict(source) # None
<1>1. PolicyVerdict(source) \in RiskVerdict
  BY PolicyIsADecision DEF PolicyVerdict, RiskVerdict
<1> QED  BY <1>1, RiskAssumption

\* The end of a check keeps the types of what it assigns.
LEMMA ConcludeTyped ==
  ASSUME TypeOK, NEW c \in Caller, NEW v \in RiskVerdict \cup {None}, Conclude(c, v)
  PROVE  /\ pc' \in [Caller -> {"idle", "reserved", "waiting", "done"}]
         /\ verdict' \in [Caller -> RiskVerdict \cup {None}]
         /\ inbox' \in [Caller -> Answer \cup {"gone", None}]
BY DEF TypeOK, Conclude

-----------------------------------------------------------------------------
(* Slots.                                                                  *)

\* Calls and reservations are finitely many.
LEMMA FiniteHolders == IsFiniteSet(Calling) /\ IsFiniteSet(Reserved)
BY RiskAssumption, FS_Subset DEF Calling, Reserved

\* The set of holders a step gives a slot to, or takes one from.
LEMMA AddHolder ==
  ASSUME NEW S, IsFiniteSet(S), NEW x, x \notin S
  PROVE  /\ Cardinality(S \cup {x}) = Cardinality(S) + 1
         /\ Cardinality(S) \in Nat
BY FS_AddElement, FS_CardinalityType

\* A slot given back is one holder less.
LEMMA DropHolder ==
  ASSUME NEW S, IsFiniteSet(S), NEW x \in S
  PROVE  /\ Cardinality(S \ {x}) = Cardinality(S) - 1
         /\ Cardinality(S) \in Nat \ {0}
<1>1. Cardinality(S \ {x}) = Cardinality(S) - 1  BY FS_RemoveElement
<1>2. Cardinality(S) \in Nat /\ Cardinality(S \ {x}) \in Nat
  BY FS_CardinalityType, FS_RemoveElement
<1> QED  BY <1>1, <1>2

\* The pool starts full and unheld.
LEMMA SlotsInit == Init => SlotsInv
<1> SUFFICES ASSUME Init PROVE SlotsInv  OBVIOUS
<1>1. TypeOK  BY DEF Init, TypeOK
<1>2. Calling = {} /\ Reserved = {}  BY DEF Init, Calling, Reserved
<1>3. CounterIsExact  BY <1>2, FS_EmptySet DEF Init, CounterIsExact
<1>4. UnderWay  BY DEF Init, UnderWay
<1>5. WithinBudget  BY <1>1, BudgetIsPositive DEF Init, WithinBudget
<1> QED  BY <1>1, <1>3, <1>4, <1>5 DEF SlotsInv

\* Every step keeps types, the count of slots and their bound.
LEMMA SlotsStep == SlotsInv /\ [Next]_vars => SlotsInv'
<1> SUFFICES ASSUME SlotsInv, [Next]_vars PROVE SlotsInv'  OBVIOUS
<1> USE DEF SlotsInv
<1>u. settings' = settings
  BY DEF Next, StartCheck, GateStep, ProviderStep, WorkerStep, CheckDisabled, Reserve,
     Exhausted, Spawn, SpawnFails, Receive, GiveUp, Return, ProviderReturns,
     ProviderPanics, DropSlot, Disconnect, vars
<1>1. ASSUME NEW c \in Caller, NEW s \in Subject, CheckDisabled(c, s)  PROVE SlotsInv'
  <2>1. None \in RiskVerdict \cup {None} /\ Conclude(c, None)  BY <1>1 DEF CheckDisabled
  <2>2. TypeOK'  BY <1>1, <2>1, ConcludeTyped DEF CheckDisabled, TypeOK, workerVars
  <2>3. UNCHANGED <<Calling, Reserved, inFlight>>
    BY <1>1 DEF CheckDisabled, Conclude, TypeOK, Calling, Reserved, workerVars
  <2>4. UnderWay'
    BY <1>1, <1>u DEF CheckDisabled, Conclude, TypeOK, UnderWay, workerVars
  <2> QED  BY <2>2, <2>3, <2>4, <1>u DEF CounterIsExact, WithinBudget
<1>2. ASSUME NEW c \in Caller, NEW s \in Subject, Reserve(c, s)  PROVE SlotsInv'
  <2>1. TypeOK'  BY <1>2 DEF Reserve, TypeOK, workerVars
  <2>2. Calling' = Calling /\ Reserved' = Reserved \cup {c} /\ c \notin Reserved
    BY <1>2 DEF Reserve, TypeOK, Calling, Reserved, workerVars
  <2>3. CounterIsExact'
    <3>1. inFlight' = inFlight + 1  BY <1>2 DEF Reserve
    <3>2. Cardinality(Calling) \in Nat  BY FiniteHolders, FS_CardinalityType
    <3> QED  BY <2>2, <3>1, <3>2, FiniteHolders, AddHolder DEF CounterIsExact
  <2>4. UnderWay'  BY <1>2 DEF Reserve, TypeOK, UnderWay, workerVars
  <2>5. WithinBudget'
    BY <1>2, BudgetIsPositive DEF Reserve, WithinBudget, TypeOK, MaxInFlight, HasProvider
  <2> QED  BY <2>1, <2>3, <2>4, <2>5
<1>3. ASSUME NEW c \in Caller, NEW s \in Subject, Exhausted(c, s)  PROVE SlotsInv'
  <2>1. PolicyVerdict("budget_exhausted") \in RiskVerdict
    BY <1>3, PolicyVerdictTyped DEF Exhausted, Source
  <2>2. Conclude(c, PolicyVerdict("budget_exhausted"))  BY <1>3 DEF Exhausted
  <2>3. TypeOK'  BY <1>3, <2>1, <2>2, ConcludeTyped DEF Exhausted, TypeOK, workerVars
  <2>4. UNCHANGED <<Calling, Reserved, inFlight>>
    BY <1>3 DEF Exhausted, Conclude, TypeOK, Calling, Reserved, workerVars
  <2>5. UnderWay'  BY <1>3, <1>u DEF Exhausted, Conclude, TypeOK, UnderWay, workerVars
  <2> QED  BY <2>3, <2>4, <2>5, <1>u DEF CounterIsExact, WithinBudget
<1>4. ASSUME NEW c \in Caller, NEW w \in Worker, Spawn(c, w)  PROVE SlotsInv'
  <2>1. TypeOK'  BY <1>4 DEF Spawn, TypeOK
  <2>2. /\ Reserved' = Reserved \ {c} /\ c \in Reserved
        /\ Calling' = Calling \cup {w} /\ w \notin Calling
    BY <1>4 DEF Spawn, TypeOK, Calling, Reserved
  <2>3. CounterIsExact'
    <3>1. inFlight' = inFlight  BY <1>4 DEF Spawn
    <3>2. Cardinality(Calling') = Cardinality(Calling) + 1 /\ Cardinality(Calling) \in Nat
      BY <2>2, FiniteHolders, AddHolder
    <3>3. Cardinality(Reserved') = Cardinality(Reserved) - 1 /\ Cardinality(Reserved) \in Nat
      BY <2>2, FiniteHolders, DropHolder
    <3> QED  BY <3>1, <3>2, <3>3 DEF CounterIsExact
  <2>4. UnderWay'  BY <1>4 DEF Spawn, TypeOK, UnderWay
  <2>5. WithinBudget'  BY <1>4 DEF Spawn, WithinBudget
  <2> QED  BY <2>1, <2>3, <2>4, <2>5
<1>5. ASSUME NEW c \in Caller, SpawnFails(c)  PROVE SlotsInv'
  <2>1. PolicyVerdict("error") \in RiskVerdict
    BY <1>5, PolicyVerdictTyped DEF SpawnFails, Source, UnderWay
  <2>2. Conclude(c, PolicyVerdict("error"))  BY <1>5 DEF SpawnFails
  <2>3. Reserved' = Reserved \ {c} /\ c \in Reserved /\ Calling' = Calling
    BY <1>5 DEF SpawnFails, Conclude, TypeOK, Calling, Reserved, workerVars
  <2>4. CounterIsExact' /\ inFlight' \in Nat /\ inFlight' = inFlight - 1
    <3>1. inFlight' = inFlight - 1  BY <1>5 DEF SpawnFails
    <3>2. /\ Cardinality(Reserved') = Cardinality(Reserved) - 1
          /\ Cardinality(Reserved) \in Nat \ {0}
      BY <2>3, FiniteHolders, DropHolder
    <3>3. Cardinality(Calling) \in Nat  BY FiniteHolders, FS_CardinalityType
    <3> QED  BY <2>3, <3>1, <3>2, <3>3 DEF CounterIsExact
  <2>5. TypeOK'
    BY <1>5, <2>1, <2>2, <2>4, ConcludeTyped DEF SpawnFails, TypeOK, workerVars
  <2>6. UnderWay'  BY <1>5 DEF SpawnFails, Conclude, TypeOK, UnderWay, workerVars
  <2>7. WithinBudget'
    BY <2>4, <1>u, BudgetIsPositive DEF WithinBudget, TypeOK
  <2> QED  BY <2>4, <2>5, <2>6, <2>7
<1>6. ASSUME NEW c \in Caller, Receive(c)  PROVE SlotsInv'
  <2> DEFINE v == IF inbox[c] \in Decision
                  THEN [outcome |-> inbox[c], source |-> "provider"]
                  ELSE PolicyVerdict("error")
  <2>1. v \in RiskVerdict
    <3>1. PolicyVerdict("error") \in RiskVerdict
      BY <1>6, PolicyVerdictTyped DEF Receive, Source, UnderWay
    <3>2. inbox[c] \in Decision =>
            [outcome |-> inbox[c], source |-> "provider"] \in RiskVerdict
      BY DEF RiskVerdict, Source
    <3> QED  BY <3>1, <3>2
  <2>2. Conclude(c, v)  BY <1>6 DEF Receive
  <2> HIDE DEF v
  <2>3. TypeOK'  BY <1>6, <2>1, <2>2, ConcludeTyped DEF Receive, TypeOK, workerVars
  <2>4. UNCHANGED <<Calling, Reserved, inFlight>>
    BY <1>6 DEF Receive, Conclude, TypeOK, Calling, Reserved, workerVars
  <2>5. UnderWay'  BY <1>6, <1>u DEF Receive, Conclude, TypeOK, UnderWay, workerVars
  <2> QED  BY <2>3, <2>4, <2>5, <1>u DEF CounterIsExact, WithinBudget
<1>7. ASSUME NEW c \in Caller, GiveUp(c)  PROVE SlotsInv'
  <2>1. PolicyVerdict("timeout") \in RiskVerdict
    BY <1>7, PolicyVerdictTyped DEF GiveUp, Source, UnderWay
  <2>2. Conclude(c, PolicyVerdict("timeout"))  BY <1>7 DEF GiveUp
  <2>3. TypeOK'  BY <1>7, <2>1, <2>2, ConcludeTyped DEF GiveUp, TypeOK
  <2>4. UNCHANGED <<Calling, Reserved, inFlight>>
    BY <1>7 DEF GiveUp, Conclude, TypeOK, Calling, Reserved
  <2>5. UnderWay'  BY <1>7, <1>u DEF GiveUp, Conclude, TypeOK, UnderWay
  <2> QED  BY <2>3, <2>4, <2>5, <1>u DEF CounterIsExact, WithinBudget
<1>8. ASSUME NEW c \in Caller, Return(c)  PROVE SlotsInv'
  <2>1. TypeOK'  BY <1>8 DEF Return, TypeOK, workerVars
  <2>2. UNCHANGED <<Calling, Reserved, inFlight>>
    BY <1>8 DEF Return, TypeOK, Calling, Reserved, workerVars
  <2>3. UnderWay'  BY <1>8, <1>u DEF Return, TypeOK, UnderWay, workerVars
  <2> QED  BY <2>1, <2>2, <2>3, <1>u DEF CounterIsExact, WithinBudget
<1>9. ASSUME NEW w \in Worker, ProviderReturns(w)  PROVE SlotsInv'
  <2>1. PICK a \in {Opinion[subject[w]], "error"} : Deliver(w, a)
    BY <1>9 DEF ProviderReturns
  <2>2. a \in Answer
    BY <1>9, RiskAssumption DEF ProviderReturns, UnderWay, Answer
  <2>3. TypeOK'
    BY <1>9, <2>1, <2>2 DEF ProviderReturns, Deliver, TypeOK
  <2>4. UNCHANGED <<Calling, Reserved, inFlight>>
    BY <1>9 DEF ProviderReturns, TypeOK, Calling, Reserved
  <2>5. UnderWay'  BY <1>9 DEF ProviderReturns, TypeOK, UnderWay
  <2> QED  BY <2>3, <2>4, <2>5, <1>u DEF CounterIsExact, WithinBudget
<1>10. ASSUME NEW w \in Worker, DropSlot(w) \/ ProviderPanics(w)  PROVE SlotsInv'
  <2>1. Calling' = Calling \ {w} /\ w \in Calling /\ Reserved' = Reserved
    BY <1>10 DEF DropSlot, ProviderPanics, TypeOK, Calling, Reserved, callerVars
  <2>2. inFlight' = inFlight - 1  BY <1>10 DEF DropSlot, ProviderPanics
  <2>3. /\ Cardinality(Calling') = Cardinality(Calling) - 1
        /\ Cardinality(Calling) \in Nat \ {0}
    BY <2>1, FiniteHolders, DropHolder
  <2>4. Cardinality(Reserved) \in Nat  BY FiniteHolders, FS_CardinalityType
  <2>5. CounterIsExact' /\ inFlight' \in Nat
    BY <2>1, <2>2, <2>3, <2>4 DEF CounterIsExact
  <2>6. TypeOK'
    BY <1>10, <2>5 DEF DropSlot, ProviderPanics, TypeOK, callerVars
  <2>7. UnderWay'
    BY <1>10 DEF DropSlot, ProviderPanics, TypeOK, UnderWay, callerVars
  <2>8. WithinBudget'  BY <2>2, <1>u, BudgetIsPositive DEF WithinBudget, TypeOK
  <2> QED  BY <2>5, <2>6, <2>7, <2>8
<1>11. ASSUME NEW w \in Worker, Disconnect(w)  PROVE SlotsInv'
  <2>1. TypeOK'  BY <1>11 DEF Disconnect, Deliver, TypeOK
  <2>2. UNCHANGED <<Calling, Reserved, inFlight>>
    BY <1>11 DEF Disconnect, TypeOK, Calling, Reserved
  <2>3. UnderWay'  BY <1>11 DEF Disconnect, TypeOK, UnderWay
  <2> QED  BY <2>1, <2>2, <2>3, <1>u DEF CounterIsExact, WithinBudget
<1>12. CASE UNCHANGED vars
  BY <1>12 DEF vars, callerVars, workerVars, TypeOK, UnderWay, CounterIsExact,
     WithinBudget, Calling, Reserved
<1> QED
  BY <1>1, <1>2, <1>3, <1>4, <1>5, <1>6, <1>7, <1>8, <1>9, <1>10, <1>11, <1>12
  DEF Next, StartCheck, GateStep, ProviderStep, WorkerStep

\* Every variable keeps its type.
THEOREM RiskGateTypeCorrect == Spec => []TypeOK
<1>1. SlotsInv => TypeOK  BY DEF SlotsInv
<1> QED  BY SlotsInit, SlotsStep, <1>1, PTL DEF Spec

\* SlotsAreCalls, for any number of callers, threads and slots: no sequence of
\* timeouts, errors, panics and failed spawns leaks a slot or exceeds the budget.
THEOREM SlotsAreCallsHolds == Spec => []SlotsAreCalls
<1>1. SlotsInv => SlotsAreCalls
  BY DEF SlotsInv, CounterIsExact, WithinBudget, SlotsAreCalls, Reserved
<1> QED  BY SlotsInit, SlotsStep, <1>1, PTL DEF Spec

-----------------------------------------------------------------------------
(* Answers.                                                                *)

\* No call has answered at the start.
LEMMA AnswersInit == Init => AnswersInv
BY SlotsInit DEF SlotsInv, Init, AnswersInv, ListenersWait, OneListenerEach,
   InboxesAreOwn, VerdictsAtTheEnd, VerdictIsJustified

\* Every step keeps channels, listeners and verdicts about the right payment.
LEMMA AnswersStep == SlotsInv /\ AnswersInv /\ [Next]_vars => AnswersInv'
<1> SUFFICES ASSUME SlotsInv, AnswersInv, [Next]_vars PROVE AnswersInv'  OBVIOUS
<1>t. TypeOK /\ UnderWay /\ TypeOK'  BY SlotsStep DEF SlotsInv
<1> USE DEF AnswersInv
<1>1. ASSUME NEW c \in Caller, NEW s \in Subject, CheckDisabled(c, s)  PROVE AnswersInv'
  <2>1. ListenersWait'  BY <1>t, <1>1 DEF TypeOK, ListenersWait, OneListenerEach, CheckDisabled, Conclude, workerVars
  <2>2. OneListenerEach'  BY <1>t, <1>1 DEF TypeOK, ListenersWait, OneListenerEach, CheckDisabled, Conclude, workerVars
  <2>3. InboxesAreOwn'
    BY <1>t, <1>1, RiskAssumption DEF TypeOK, UnderWay, ListenersWait, InboxesAreOwn, CheckDisabled, Conclude, workerVars
  <2>4. VerdictsAtTheEnd'
    BY <1>t, <1>1, RiskAssumption, PolicyVerdictTyped DEF TypeOK, UnderWay, VerdictsAtTheEnd, CheckDisabled, Conclude, workerVars
  <2>5. VerdictIsJustified'
    BY <1>t, <1>1, RiskAssumption DEF TypeOK, InboxesAreOwn, VerdictsAtTheEnd, VerdictIsJustified, CheckDisabled, Conclude, workerVars
  <2> QED  BY <1>t, <2>1, <2>2, <2>3, <2>4, <2>5
<1>2. ASSUME NEW c \in Caller, NEW s \in Subject, Reserve(c, s)  PROVE AnswersInv'
  <2>1. ListenersWait'  BY <1>t, <1>2 DEF TypeOK, ListenersWait, OneListenerEach, Reserve, workerVars
  <2>2. OneListenerEach'  BY <1>t, <1>2 DEF TypeOK, ListenersWait, OneListenerEach, Reserve, workerVars
  <2>3. InboxesAreOwn'
    BY <1>t, <1>2, RiskAssumption DEF TypeOK, UnderWay, ListenersWait, InboxesAreOwn, Reserve, workerVars
  <2>4. VerdictsAtTheEnd'
    BY <1>t, <1>2, RiskAssumption, PolicyVerdictTyped DEF TypeOK, UnderWay, VerdictsAtTheEnd, Reserve, workerVars
  <2>5. VerdictIsJustified'
    BY <1>t, <1>2, RiskAssumption DEF TypeOK, InboxesAreOwn, VerdictsAtTheEnd, VerdictIsJustified, Reserve, workerVars
  <2> QED  BY <1>t, <2>1, <2>2, <2>3, <2>4, <2>5
<1>3. ASSUME NEW c \in Caller, NEW s \in Subject, Exhausted(c, s)  PROVE AnswersInv'
  <2>1. ListenersWait'  BY <1>t, <1>3 DEF TypeOK, ListenersWait, OneListenerEach, Exhausted, Conclude, PolicyVerdict, workerVars
  <2>2. OneListenerEach'  BY <1>t, <1>3 DEF TypeOK, ListenersWait, OneListenerEach, Exhausted, Conclude, PolicyVerdict, workerVars
  <2>3. InboxesAreOwn'
    BY <1>t, <1>3, RiskAssumption DEF TypeOK, UnderWay, ListenersWait, InboxesAreOwn, Exhausted, Conclude, PolicyVerdict, workerVars
  <2>4. VerdictsAtTheEnd'
    <3>1. PolicyVerdict("budget_exhausted") # None
      BY <1>t, <1>3, PolicyVerdictTyped DEF Exhausted, UnderWay, Source
    <3> QED  BY <3>1, <1>t, <1>3 DEF TypeOK, VerdictsAtTheEnd, Exhausted, Conclude, workerVars
  <2>5. VerdictIsJustified'
    BY <1>t, <1>3, RiskAssumption DEF TypeOK, InboxesAreOwn, VerdictsAtTheEnd, VerdictIsJustified, Exhausted, Conclude, PolicyVerdict, workerVars
  <2> QED  BY <1>t, <2>1, <2>2, <2>3, <2>4, <2>5
<1>4. ASSUME NEW c \in Caller, NEW w \in Worker, Spawn(c, w)  PROVE AnswersInv'
  <2>1. ListenersWait'  BY <1>t, <1>4 DEF TypeOK, ListenersWait, InboxesAreOwn, Spawn
  <2>2. OneListenerEach'  BY <1>t, <1>4 DEF TypeOK, ListenersWait, OneListenerEach, Spawn
  <2>3. InboxesAreOwn'
    BY <1>t, <1>4, RiskAssumption DEF TypeOK, UnderWay, ListenersWait, InboxesAreOwn, Spawn
  <2>4. VerdictsAtTheEnd'
    BY <1>t, <1>4, RiskAssumption, PolicyVerdictTyped DEF TypeOK, UnderWay, VerdictsAtTheEnd, Spawn
  <2>5. VerdictIsJustified'
    BY <1>t, <1>4, RiskAssumption DEF TypeOK, InboxesAreOwn, VerdictsAtTheEnd, VerdictIsJustified, Spawn
  <2> QED  BY <1>t, <2>1, <2>2, <2>3, <2>4, <2>5
<1>5. ASSUME NEW c \in Caller, SpawnFails(c)  PROVE AnswersInv'
  <2>1. ListenersWait'  BY <1>t, <1>5 DEF TypeOK, ListenersWait, OneListenerEach, SpawnFails, Conclude, PolicyVerdict, workerVars
  <2>2. OneListenerEach'  BY <1>t, <1>5 DEF TypeOK, ListenersWait, OneListenerEach, SpawnFails, Conclude, PolicyVerdict, workerVars
  <2>3. InboxesAreOwn'
    BY <1>t, <1>5, RiskAssumption DEF TypeOK, UnderWay, ListenersWait, InboxesAreOwn, SpawnFails, Conclude, PolicyVerdict, workerVars
  <2>4. VerdictsAtTheEnd'
    <3>1. PolicyVerdict("error") # None
      BY <1>t, <1>5, PolicyVerdictTyped DEF SpawnFails, UnderWay, Source
    <3> QED  BY <3>1, <1>t, <1>5 DEF TypeOK, VerdictsAtTheEnd, SpawnFails, Conclude, workerVars
  <2>5. VerdictIsJustified'
    BY <1>t, <1>5, RiskAssumption DEF TypeOK, InboxesAreOwn, VerdictsAtTheEnd, VerdictIsJustified, SpawnFails, Conclude, PolicyVerdict, workerVars
  <2> QED  BY <1>t, <2>1, <2>2, <2>3, <2>4, <2>5
<1>6. ASSUME NEW c \in Caller, Receive(c)  PROVE AnswersInv'
  <2>1. ListenersWait'  BY <1>t, <1>6 DEF TypeOK, ListenersWait, OneListenerEach, Receive, Conclude, PolicyVerdict, workerVars
  <2>2. OneListenerEach'  BY <1>t, <1>6 DEF TypeOK, ListenersWait, OneListenerEach, Receive, Conclude, PolicyVerdict, workerVars
  <2>3. InboxesAreOwn'
    BY <1>t, <1>6, RiskAssumption DEF TypeOK, UnderWay, ListenersWait, InboxesAreOwn, Receive, Conclude, PolicyVerdict, workerVars
  <2>4. VerdictsAtTheEnd'
    <3>1. PolicyVerdict("error") # None
      BY <1>t, <1>6, PolicyVerdictTyped DEF Receive, UnderWay, Source
    <3>2. inbox[c] \in Decision => [outcome |-> inbox[c], source |-> "provider"] # None
      <4>1. inbox[c] \in Decision =>
              [outcome |-> inbox[c], source |-> "provider"] \in RiskVerdict
        BY DEF RiskVerdict, Source
      <4> QED  BY <4>1, RiskAssumption
    <3>3. verdict'[c] # None  BY <3>1, <3>2, <1>t, <1>6 DEF Receive, Conclude, TypeOK
    <3> QED  BY <3>3, <1>t, <1>6 DEF TypeOK, VerdictsAtTheEnd, Receive, Conclude, workerVars
  <2>5. VerdictIsJustified'
    BY <1>t, <1>6, RiskAssumption DEF TypeOK, InboxesAreOwn, VerdictsAtTheEnd, VerdictIsJustified, Receive, Conclude, PolicyVerdict, workerVars
  <2> QED  BY <1>t, <2>1, <2>2, <2>3, <2>4, <2>5
<1>7. ASSUME NEW c \in Caller, GiveUp(c)  PROVE AnswersInv'
  <2>1. ListenersWait'  BY <1>t, <1>7 DEF TypeOK, ListenersWait, OneListenerEach, GiveUp, Conclude, PolicyVerdict
  <2>2. OneListenerEach'  BY <1>t, <1>7 DEF TypeOK, ListenersWait, OneListenerEach, GiveUp, Conclude, PolicyVerdict
  <2>3. InboxesAreOwn'
    BY <1>t, <1>7, RiskAssumption DEF TypeOK, UnderWay, ListenersWait, InboxesAreOwn, GiveUp, Conclude, PolicyVerdict
  <2>4. VerdictsAtTheEnd'
    <3>1. PolicyVerdict("timeout") # None
      BY <1>t, <1>7, PolicyVerdictTyped DEF GiveUp, UnderWay, Source
    <3> QED  BY <3>1, <1>t, <1>7 DEF TypeOK, VerdictsAtTheEnd, GiveUp, Conclude
  <2>5. VerdictIsJustified'
    BY <1>t, <1>7, RiskAssumption DEF TypeOK, InboxesAreOwn, VerdictsAtTheEnd, VerdictIsJustified, GiveUp, Conclude, PolicyVerdict
  <2> QED  BY <1>t, <2>1, <2>2, <2>3, <2>4, <2>5
<1>8. ASSUME NEW c \in Caller, Return(c)  PROVE AnswersInv'
  <2>1. ListenersWait'  BY <1>t, <1>8 DEF TypeOK, ListenersWait, OneListenerEach, Return, workerVars
  <2>2. OneListenerEach'  BY <1>t, <1>8 DEF TypeOK, ListenersWait, OneListenerEach, Return, workerVars
  <2>3. InboxesAreOwn'
    BY <1>t, <1>8, RiskAssumption DEF TypeOK, UnderWay, ListenersWait, InboxesAreOwn, Return, workerVars
  <2>4. VerdictsAtTheEnd'
    BY <1>t, <1>8, RiskAssumption, PolicyVerdictTyped DEF TypeOK, UnderWay, VerdictsAtTheEnd, Return, workerVars
  <2>5. VerdictIsJustified'
    BY <1>t, <1>8, RiskAssumption DEF TypeOK, InboxesAreOwn, VerdictsAtTheEnd, VerdictIsJustified, Return, workerVars
  <2> QED  BY <1>t, <2>1, <2>2, <2>3, <2>4, <2>5
<1>9. ASSUME NEW w \in Worker, ProviderReturns(w)  PROVE AnswersInv'
  <2>1. ListenersWait'  BY <1>t, <1>9 DEF TypeOK, ListenersWait, OneListenerEach, ProviderReturns, Deliver
  <2>2. OneListenerEach'  BY <1>t, <1>9 DEF TypeOK, ListenersWait, OneListenerEach, ProviderReturns, Deliver
  <2>3. InboxesAreOwn'
    <3>1. PICK a \in {Opinion[subject[w]], "error"} : Deliver(w, a)
      BY <1>9 DEF ProviderReturns
    <3>2. a \in Decision => a = Opinion[subject[w]]  BY <3>1 DEF Decision
    <3> SUFFICES ASSUME NEW c \in Caller, inbox'[c] # None
                 PROVE  /\ pc'[c] = "waiting"
                        /\ inbox'[c] \in Decision => inbox'[c] = Opinion[about'[c]]
      BY DEF InboxesAreOwn
    <3>3. CASE listener[w] = c
      <4>1. c # None  BY RiskAssumption
      <4>2. pc[c] = "waiting" /\ subject[w] = about[c]  BY <3>3, <4>1 DEF ListenersWait
      <4>3. inbox'[c] = a  BY <3>1, <3>3 DEF Deliver
      <4> QED  BY <1>9, <3>2, <4>2, <4>3 DEF ProviderReturns
    <3>4. CASE listener[w] # c
      <4>1. inbox'[c] = inbox[c]  BY <3>1, <3>4 DEF Deliver
      <4> QED  BY <1>9, <4>1 DEF InboxesAreOwn, ProviderReturns
    <3> QED  BY <3>3, <3>4
  <2>4. VerdictsAtTheEnd'
    BY <1>t, <1>9, RiskAssumption, PolicyVerdictTyped DEF TypeOK, UnderWay, VerdictsAtTheEnd, ProviderReturns, Deliver
  <2>5. VerdictIsJustified'
    BY <1>t, <1>9, RiskAssumption DEF TypeOK, InboxesAreOwn, VerdictsAtTheEnd, VerdictIsJustified, ProviderReturns, Deliver
  <2> QED  BY <1>t, <2>1, <2>2, <2>3, <2>4, <2>5
<1>10. ASSUME NEW w \in Worker, DropSlot(w) \/ ProviderPanics(w)  PROVE AnswersInv'
  <2>1. ListenersWait'  BY <1>t, <1>10 DEF TypeOK, ListenersWait, OneListenerEach, DropSlot, ProviderPanics, callerVars
  <2>2. OneListenerEach'  BY <1>t, <1>10 DEF TypeOK, ListenersWait, OneListenerEach, DropSlot, ProviderPanics, callerVars
  <2>3. InboxesAreOwn'
    BY <1>t, <1>10, RiskAssumption DEF TypeOK, UnderWay, ListenersWait, InboxesAreOwn, DropSlot, ProviderPanics, callerVars
  <2>4. VerdictsAtTheEnd'
    BY <1>t, <1>10, RiskAssumption, PolicyVerdictTyped DEF TypeOK, UnderWay, VerdictsAtTheEnd, DropSlot, ProviderPanics, callerVars
  <2>5. VerdictIsJustified'
    BY <1>t, <1>10, RiskAssumption DEF TypeOK, InboxesAreOwn, VerdictsAtTheEnd, VerdictIsJustified, DropSlot, ProviderPanics, callerVars
  <2> QED  BY <1>t, <2>1, <2>2, <2>3, <2>4, <2>5
<1>11. ASSUME NEW w \in Worker, Disconnect(w)  PROVE AnswersInv'
  <2>1. ListenersWait'  BY <1>t, <1>11 DEF TypeOK, ListenersWait, OneListenerEach, Disconnect, Deliver
  <2>2. OneListenerEach'  BY <1>t, <1>11 DEF TypeOK, ListenersWait, OneListenerEach, Disconnect, Deliver
  <2>3. InboxesAreOwn'
    <3>1. Deliver(w, "gone")  BY <1>11 DEF Disconnect
    <3>2. "gone" \notin Decision  BY DEF Decision
    <3> SUFFICES ASSUME NEW c \in Caller, inbox'[c] # None
                 PROVE  /\ pc'[c] = "waiting"
                        /\ inbox'[c] \in Decision => inbox'[c] = Opinion[about'[c]]
      BY DEF InboxesAreOwn
    <3>3. CASE listener[w] = c
      <4>1. c # None  BY RiskAssumption
      <4>2. pc[c] = "waiting" /\ subject[w] = about[c]  BY <3>3, <4>1 DEF ListenersWait
      <4>3. inbox'[c] = "gone"  BY <3>1, <3>3 DEF Deliver
      <4> QED  BY <1>11, <3>2, <4>2, <4>3 DEF Disconnect
    <3>4. CASE listener[w] # c
      <4>1. inbox'[c] = inbox[c]  BY <3>1, <3>4 DEF Deliver
      <4> QED  BY <1>11, <4>1 DEF InboxesAreOwn, Disconnect
    <3> QED  BY <3>3, <3>4
  <2>4. VerdictsAtTheEnd'
    BY <1>t, <1>11, RiskAssumption, PolicyVerdictTyped DEF TypeOK, UnderWay, VerdictsAtTheEnd, Disconnect, Deliver
  <2>5. VerdictIsJustified'
    BY <1>t, <1>11, RiskAssumption DEF TypeOK, InboxesAreOwn, VerdictsAtTheEnd, VerdictIsJustified, Disconnect, Deliver
  <2> QED  BY <1>t, <2>1, <2>2, <2>3, <2>4, <2>5
<1>12. CASE UNCHANGED vars
  BY <1>12, <1>t DEF vars, callerVars, workerVars, ListenersWait, OneListenerEach,
     InboxesAreOwn, VerdictsAtTheEnd, VerdictIsJustified, PolicyVerdict
<1> QED
  BY <1>1, <1>2, <1>3, <1>4, <1>5, <1>6, <1>7, <1>8, <1>9, <1>10, <1>11, <1>12
  DEF Next, StartCheck, GateStep, ProviderStep, WorkerStep

\* VerdictIsJustified, for any provider and any number of checks: a late answer
\* never becomes the verdict on another payment, and everything else is the
\* policy's word.
THEOREM VerdictIsJustifiedHolds == Spec => []VerdictIsJustified
<1>1. AnswersInv => VerdictIsJustified  BY DEF AnswersInv
<1> QED  BY SlotsInit, SlotsStep, AnswersInit, AnswersStep, <1>1, PTL DEF Spec

\* FailOpenIsAskedFor: no environment but one that spells "allow" lets a payment
\* out without the provider's consent.
THEOREM FailOpenIsAskedForHolds == Spec => []FailOpenIsAskedFor
<1>1. SlotsInv /\ AnswersInv => FailOpenIsAskedFor
  <2> SUFFICES ASSUME SlotsInv, AnswersInv, NEW c \in Caller,
                      pc[c] = "done", HasProvider(settings)
               PROVE  /\ verdict[c] # None
                      /\ verdict[c].outcome = "allow" =>
                           Opinion[about[c]] = "allow" \/ settings.onUnavailable = "allow"
    BY DEF FailOpenIsAskedFor
  <2>1. verdict[c] # None  BY DEF AnswersInv, VerdictsAtTheEnd
  <2>2. \/ verdict[c].outcome = Opinion[about[c]]
        \/ verdict[c].outcome = OnUnavailable(settings)
    BY <2>1 DEF AnswersInv, VerdictIsJustified
  <2> QED  BY <2>1, <2>2 DEF OnUnavailable
<1> QED  BY SlotsInit, SlotsStep, AnswersInit, AnswersStep, <1>1, PTL DEF Spec
=============================================================================

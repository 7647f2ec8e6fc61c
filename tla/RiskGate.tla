------------------------------ MODULE RiskGate ------------------------------
(***************************************************************************)
(* The pre-send risk check (gateway/src/risk.rs): callers, the threads     *)
(* that serve submissions, ask a provider that may answer, fail, panic,    *)
(* answer late or never.  Each provider call runs on a thread of its own   *)
(* and holds a slot of a shared budget until the provider returns; the     *)
(* caller waits for a limited time and then lets a policy decide.          *)
(*                                                                         *)
(* A step is one operation on state that threads share: the slot counter,  *)
(* a channel, the start or the end of a thread.  The time limit may run    *)
(* out whenever the channel is empty.                                      *)
(***************************************************************************)
EXTENDS Integers, FiniteSets

CONSTANTS
  Caller,         \* threads that run a check
  Worker,         \* names for the threads that call the provider
  Subject,        \* payments to check
  Opinion,        \* the provider's decision on each subject, a function
  Settings,       \* the environments the gateway may be started in
  DefaultMaxInFlight,
  None

Decision == {"allow", "hold", "refuse"}

Source == {"provider", "timeout", "error", "budget_exhausted"}

RiskVerdict == [outcome : Decision, source : Source]

\* The FEDNOW_GW_RISK_* variables.  None: unset; 0 stands for every value that
\* is not a positive integer.
Setting ==
  [provider      : {"none", "sim", "other", None},
   onUnavailable : Decision \cup {"other", None},
   timeoutMs     : Nat \cup {None},
   maxInFlight   : Nat \cup {None}]

ASSUME RiskAssumption ==
  /\ IsFiniteSet(Caller) /\ IsFiniteSet(Worker)
  /\ Opinion \in [Subject -> Decision]
  /\ Settings \subseteq Setting
  /\ DefaultMaxInFlight \in Nat \ {0}
  /\ None \notin Caller \cup Subject \cup Decision \cup Nat \cup {"error", "gone", "sim"}
  /\ None \notin RiskVerdict

-----------------------------------------------------------------------------
(* The gate an environment asks for.                                       *)

\* risk.rs refuses these and the gateway does not start.
RefusedAtStart(s) ==
  /\ s.provider \notin {None, "none"}
  /\ \/ s.provider # "sim"
     \/ s.onUnavailable = "other"
     \/ s.timeoutMs = 0
     \/ s.maxInFlight = 0

HasProvider(s) == s.provider = "sim"

OnUnavailable(s) == IF s.onUnavailable = None THEN "hold" ELSE s.onUnavailable

MaxInFlight(s) == IF s.maxInFlight = None THEN DefaultMaxInFlight ELSE s.maxInFlight

-----------------------------------------------------------------------------
VARIABLES
  settings,       \* the environment this gateway was started in
  inFlight,       \* the shared counter of slots taken
  pc,             \* where each caller is in its check
  about,          \* the subject each caller asks about
  inbox,          \* the channel each caller waits on
  verdict,        \* the result of each caller's last check
  work,           \* what each worker thread is doing
  subject,        \* the subject each worker asks the provider about
  listener        \* the caller still waiting for each worker

callerVars == <<pc, about, inbox, verdict>>
workerVars == <<work, subject, listener>>
vars == <<settings, inFlight, callerVars, workerVars>>

\* An inbox holds an answer, a provider error, or "gone": the sender died.
Answer == Decision \cup {"error"}

\* The types of every variable.
TypeOK ==
  /\ settings \in Settings /\ ~RefusedAtStart(settings)
  /\ inFlight \in Nat
  /\ pc \in [Caller -> {"idle", "reserved", "waiting", "done"}]
  /\ about \in [Caller -> Subject \cup {None}]
  /\ inbox \in [Caller -> Answer \cup {"gone", None}]
  /\ verdict \in [Caller -> RiskVerdict \cup {None}]
  /\ work \in [Worker -> {"free", "running", "returned", "unwound"}]
  /\ subject \in [Worker -> Subject \cup {None}]
  /\ listener \in [Worker -> Caller \cup {None}]

Init ==
  /\ settings \in Settings /\ ~RefusedAtStart(settings)
  /\ inFlight = 0
  /\ pc = [c \in Caller |-> "idle"]
  /\ about = [c \in Caller |-> None]
  /\ inbox = [c \in Caller |-> None]
  /\ verdict = [c \in Caller |-> None]
  /\ work = [w \in Worker |-> "free"]
  /\ subject = [w \in Worker |-> None]
  /\ listener = [w \in Worker |-> None]

-----------------------------------------------------------------------------
(* check, on the caller's thread.                                          *)

PolicyVerdict(source) ==
  [outcome |-> OnUnavailable(settings), source |-> source]

Conclude(c, v) ==
  /\ pc' = [pc EXCEPT ![c] = "done"]
  /\ verdict' = [verdict EXCEPT ![c] = v]
  /\ inbox' = [inbox EXCEPT ![c] = None]

\* No provider: no check, no verdict.
CheckDisabled(c, s) ==
  /\ pc[c] = "idle" /\ ~HasProvider(settings)
  /\ about' = [about EXCEPT ![c] = s]
  /\ Conclude(c, None)
  /\ UNCHANGED <<settings, inFlight, workerVars>>

Reserve(c, s) ==
  /\ pc[c] = "idle" /\ HasProvider(settings)
  /\ inFlight < MaxInFlight(settings)
  /\ inFlight' = inFlight + 1
  /\ pc' = [pc EXCEPT ![c] = "reserved"]
  /\ about' = [about EXCEPT ![c] = s]
  /\ UNCHANGED <<settings, inbox, verdict, workerVars>>

MutClearWhenFull(c, s) ==
  /\ pc[c] = "idle" /\ HasProvider(settings)
  /\ inFlight >= MaxInFlight(settings)
  /\ about' = [about EXCEPT ![c] = s]
  /\ Conclude(c, [outcome |-> "allow", source |-> "budget_exhausted"])
  /\ UNCHANGED <<settings, inFlight, workerVars>>

\* The budget is taken: the provider is not called.
Exhausted(c, s) ==
  /\ pc[c] = "idle" /\ HasProvider(settings)
  /\ inFlight >= MaxInFlight(settings)
  /\ about' = [about EXCEPT ![c] = s]
  /\ Conclude(c, PolicyVerdict("budget_exhausted"))
  /\ UNCHANGED <<settings, inFlight, workerVars>>

Spawn(c, w) ==
  /\ pc[c] = "reserved" /\ work[w] = "free"
  /\ pc' = [pc EXCEPT ![c] = "waiting"]
  /\ work' = [work EXCEPT ![w] = "running"]
  /\ subject' = [subject EXCEPT ![w] = about[c]]
  /\ listener' = [listener EXCEPT ![w] = c]
  /\ UNCHANGED <<settings, inFlight, about, inbox, verdict>>

MutSpawnFailureLeaks(c) ==
  /\ pc[c] = "reserved"
  /\ Conclude(c, PolicyVerdict("error"))
  /\ UNCHANGED <<settings, inFlight, about, workerVars>>

\* No thread: the closure is dropped, and the slot with it.
SpawnFails(c) ==
  /\ pc[c] = "reserved"
  /\ inFlight' = inFlight - 1
  /\ Conclude(c, PolicyVerdict("error"))
  /\ UNCHANGED <<settings, about, workerVars>>

Receive(c) ==
  /\ pc[c] = "waiting" /\ inbox[c] # None
  /\ Conclude(c, IF inbox[c] \in Decision
                 THEN [outcome |-> inbox[c], source |-> "provider"]
                 ELSE PolicyVerdict("error"))
  /\ UNCHANGED <<settings, inFlight, about, workerVars>>

MutWaitForever(c) ==
  /\ pc[c] = "waiting" /\ inbox[c] = "gone"
  /\ Conclude(c, PolicyVerdict("timeout"))
  /\ UNCHANGED <<settings, inFlight, about, workerVars>>

MutKeepListening(c) ==
  /\ pc[c] = "waiting" /\ inbox[c] = None
  /\ Conclude(c, PolicyVerdict("timeout"))
  /\ UNCHANGED <<settings, inFlight, about, workerVars>>

\* The time is up: the caller drops its end of the channel.  The worker keeps
\* its slot.
GiveUp(c) ==
  /\ pc[c] = "waiting" /\ inbox[c] = None
  /\ Conclude(c, PolicyVerdict("timeout"))
  /\ listener' = [w \in Worker |-> IF listener[w] = c THEN None ELSE listener[w]]
  /\ UNCHANGED <<settings, inFlight, about, work, subject>>

\* The caller's thread turns to another submission.
Return(c) ==
  /\ pc[c] = "done"
  /\ pc' = [pc EXCEPT ![c] = "idle"]
  /\ about' = [about EXCEPT ![c] = None]
  /\ verdict' = [verdict EXCEPT ![c] = None]
  /\ UNCHANGED <<settings, inFlight, inbox, workerVars>>

-----------------------------------------------------------------------------
(* The worker thread.                                                      *)

\* A message in the channel of whoever still waits for this worker.
Deliver(w, message) ==
  /\ inbox' = [c \in Caller |-> IF listener[w] = c THEN message ELSE inbox[c]]
  /\ listener' = [listener EXCEPT ![w] = None]

\* The provider returns its decision or an error, late or in time.
ProviderReturns(w) ==
  /\ work[w] = "running"
  /\ \E a \in {Opinion[subject[w]], "error"} : Deliver(w, a)
  /\ work' = [work EXCEPT ![w] = "returned"]
  /\ UNCHANGED <<settings, inFlight, pc, about, verdict, subject>>

\* The end of the closure, after the answer was sent: InFlightSlot is dropped.
DropSlot(w) ==
  /\ work[w] = "returned"
  /\ work' = [work EXCEPT ![w] = "free"]
  /\ subject' = [subject EXCEPT ![w] = None]
  /\ inFlight' = inFlight - 1
  /\ UNCHANGED <<settings, callerVars, listener>>

MutPanicLeaks(w) ==
  /\ work[w] = "running"
  /\ work' = [work EXCEPT ![w] = "unwound"]
  /\ UNCHANGED <<settings, inFlight, callerVars, subject, listener>>

\* A panic unwinds the slot first and the sender second.
ProviderPanics(w) ==
  /\ work[w] = "running"
  /\ work' = [work EXCEPT ![w] = "unwound"]
  /\ inFlight' = inFlight - 1
  /\ UNCHANGED <<settings, callerVars, subject, listener>>

MutReleaseTwice(w) ==
  /\ work[w] = "unwound"
  /\ Deliver(w, "gone")
  /\ work' = [work EXCEPT ![w] = "free"]
  /\ subject' = [subject EXCEPT ![w] = None]
  /\ inFlight' = inFlight - 1
  /\ UNCHANGED <<settings, pc, about, verdict>>

Disconnect(w) ==
  /\ work[w] = "unwound"
  /\ Deliver(w, "gone")
  /\ work' = [work EXCEPT ![w] = "free"]
  /\ subject' = [subject EXCEPT ![w] = None]
  /\ UNCHANGED <<settings, inFlight, pc, about, verdict>>

-----------------------------------------------------------------------------
StartCheck(c) == \E s \in Subject : CheckDisabled(c, s) \/ Reserve(c, s) \/ Exhausted(c, s)

\* What the gate itself does next for a check under way.
GateStep(c) ==
  \/ \E w \in Worker : Spawn(c, w)
  \/ SpawnFails(c) \/ Receive(c) \/ GiveUp(c)

\* The provider comes back, one way or the other.
ProviderStep(w) == ProviderReturns(w) \/ ProviderPanics(w)

\* What a thread does once the provider has come back.
WorkerStep(w) == DropSlot(w) \/ Disconnect(w)

Next ==
  \/ \E c \in Caller : StartCheck(c) \/ GateStep(c) \/ Return(c)
  \/ \E w \in Worker : ProviderStep(w) \/ WorkerStep(w)

Spec == Init /\ [][Next]_vars

\* Threads run and clocks advance; nothing is promised of the provider.
Fairness ==
  /\ \A c \in Caller : WF_vars(GateStep(c))
  /\ \A w \in Worker : WF_vars(WorkerStep(w))

FairSpec == Spec /\ Fairness

-----------------------------------------------------------------------------
(* Properties.                                                             *)

\* Worker threads whose provider call holds a slot, abandoned or not.
Calling == {w \in Worker : work[w] \in {"running", "returned"}}

\* The counter counts exactly the calls not yet returned and those about to
\* start, whatever timeouts, panics and failed spawns came before: a leaked
\* slot would close the gate for good, a slot given back twice or too early
\* would let threads pile up on a provider that hangs.
SlotsAreCalls ==
  /\ inFlight = Cardinality(Calling) + Cardinality({c \in Caller : pc[c] = "reserved"})
  /\ HasProvider(settings) => inFlight <= MaxInFlight(settings)

\* A verdict that names the provider is the provider's decision on this very
\* payment, never the late answer to an earlier check; any other verdict is
\* the failure policy's.
VerdictIsJustified ==
  \A c \in Caller :
    verdict[c] # None =>
      IF verdict[c].source = "provider"
      THEN verdict[c].outcome = Opinion[about[c]]
      ELSE verdict[c].outcome = OnUnavailable(settings)

\* Where a provider is configured, a payment goes out against its opinion or
\* without it only if the operator spelled "allow" for that case.
FailOpenIsAskedFor ==
  \A c \in Caller :
    pc[c] = "done" /\ HasProvider(settings) =>
      /\ verdict[c] # None
      /\ verdict[c].outcome = "allow" =>
           Opinion[about[c]] = "allow" \/ settings.onUnavailable = "allow"

\* A check ends whatever the provider does: it cannot hold up the submission.
ChecksEnd == \A c \in Caller : pc[c] = "reserved" ~> pc[c] = "done"

\* If the provider always comes back in the end, a full budget does not stay
\* full, so an outage does not outlive itself.
BudgetComesBack ==
  (\A w \in Worker : WF_vars(ProviderStep(w)))
    => (HasProvider(settings) /\ inFlight = MaxInFlight(settings))
         ~> inFlight < MaxInFlight(settings)
=============================================================================

----------------------------- MODULE Lifecycle -----------------------------
(***************************************************************************)
(* What the gateway promises about a payment, without saying how it is     *)
(* stored: an accepted payment is cleared for the wire at most once, with  *)
(* one message fixed for good; a refused or cancelled one is never         *)
(* cleared; an outcome is final.  Store is shown to implement it.          *)
(***************************************************************************)
CONSTANTS Key, Message, None

VARIABLES
  phase,          \* how far each payment has come
  cleared         \* the message cleared for the wire, or None

lifecycleVars == <<phase, cleared>>

Phase == {"absent", "accepted", "held", "refused", "cancelled",
          "queued", "settled", "rejected"}

LifecycleInit ==
  /\ phase = [k \in Key |-> "absent"]
  /\ cleared = [k \in Key |-> None]

Move(k, from, to) ==
  /\ phase[k] = from
  /\ phase' = [phase EXCEPT ![k] = to]

Accept(k) == Move(k, "absent", "accepted") /\ UNCHANGED cleared

Judge(k) ==
  /\ \E to \in {"held", "refused"} : Move(k, "accepted", to)
  /\ UNCHANGED cleared

Cancel(k) == Move(k, "held", "cancelled") /\ UNCHANGED cleared

\* The message cannot be exchanged for another one later: no action changes
\* cleared[k] again.
Clear(k, m) ==
  /\ \E from \in {"accepted", "held"} : Move(k, from, "queued")
  /\ cleared' = [cleared EXCEPT ![k] = m]

Resolve(k) ==
  /\ \E to \in {"settled", "rejected"} : Move(k, "queued", to)
  /\ UNCHANGED cleared

LifecycleNext ==
  \E k \in Key :
    \/ Accept(k) \/ Judge(k) \/ Cancel(k) \/ Resolve(k)
    \/ \E m \in Message : Clear(k, m)

LifecycleSpec == LifecycleInit /\ [][LifecycleNext]_lifecycleVars
=============================================================================

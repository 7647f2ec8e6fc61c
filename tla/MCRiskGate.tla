----------------------------- MODULE MCRiskGate -----------------------------
(* An instance of RiskGate for TLC: two callers, a budget of one or two.   *)
EXTENDS RiskGate

\* One payment the provider clears, one it refuses.
MCOpinion == [s \in Subject |-> IF s = "fine" THEN "allow" ELSE "refuse"]

\* The policy spelled and left out, a budget below the number of callers and at
\* it, and the values that are refused.
MCSettings ==
  {s \in [provider : {"none", "sim", "other", None},
          onUnavailable : {"allow", "other", None},
          timeoutMs : {0, None}, maxInFlight : {0, 1, None}] :
     \* the disabled and the refused gates differ in nothing else
     s.provider # "sim" => s = [provider |-> s.provider, onUnavailable |-> "other",
                                timeoutMs |-> 0, maxInFlight |-> 0]}
=============================================================================

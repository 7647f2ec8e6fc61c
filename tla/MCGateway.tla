----------------------------- MODULE MCGateway -----------------------------
(* Instances of Gateway for TLC.  A message is a key and the scenario the  *)
(* simulator plays for it, so a key can be submitted with several          *)
(* contents and two keys never share a message.                            *)
EXTENDS GatewayProperties, TLC

CONSTANT Plays              \* names of the scenarios in the instance

MCMessage == Key \X Plays

MCSha256 == [m \in MCMessage |-> <<"sha256", m>>]

MCMsgId == [m \in MCMessage |-> m]

\* Message ids shared by every key: the same sender reference used twice.
SharedMsgId == [m \in MCMessage |-> "ref1"]

\* Submissions that fail the FedNow profile.
MCInvalid == {m \in MCMessage : m[2] = "invalid"}

Symmetric == Permutations(Handler)

Play == [invalid  |-> [action |-> "reject",  followUp |-> None],
         settle   |-> [action |-> "settle",  followUp |-> None],
         timeout  |-> [action |-> "timeout", followUp |-> None],
         delay    |-> [action |-> "delay",   followUp |-> None],
         reject   |-> [action |-> "reject",  followUp |-> None],
         awp      |-> [action |-> "awp",     followUp |-> None],
         awpAccc  |-> [action |-> "awp",     followUp |-> "ACCC"],
         awpRjct  |-> [action |-> "awp",     followUp |-> "RJCT"],
         awpPdng  |-> [action |-> "awp",     followUp |-> "PDNG"]]

MCScenario == [m \in MCMessage |-> Play[m[2]]]

-----------------------------------------------------------------------------
(* Deployments.                                                            *)

NoFaults == [losses |-> 0, refusals |-> 0, crashes |-> 0, restarts |-> 0]

\* Every key may be submitted with every message made for it from these plays.
Submissions(plays) == {<<k, <<k, p>>>> : k \in Key, p \in plays}

\* No risk provider, a clock that stands still, no other request.
Plain(transport, plays, faults) ==
  [transport |-> transport, verdicts |-> {None},
   requests |-> Submissions(plays), operations |-> {},
   lastSecond |-> 0, faults |-> faults]

Reconciling(d) == [d EXCEPT !.operations = {"reconcile"}]

\* Answers on the queue: a lost exchange and a crash anywhere.
OverMq ==
  Reconciling(Plain("mq", {"settle", "timeout", "reject", "awpAccc"},
                    [NoFaults EXCEPT !.losses = 1, !.crashes = 1]))

\* Answers in the response: a refusal on the way and a restart as well.
OverHttp ==
  Reconciling(Plain("http", {"settle", "timeout", "reject", "awpRjct"},
                    [losses |-> 1, refusals |-> 1, crashes |-> 1, restarts |-> 1]))

\* A risk check that may hold: releases, cancellations and expiry race while
\* the clock moves, and the key is reused for another message.
WithHolds ==
  [Plain("http", {"settle", "reject", "invalid"}, [NoFaults EXCEPT !.crashes = 1])
    EXCEPT !.verdicts   = {"allow", "hold", "refuse"},
           !.operations = {"release", "cancel"},
           !.lastSecond = 2]

MCOne == {OverMq, OverHttp, WithHolds}

\* Two payments, of which one settles and one is rejected, so that an outcome on
\* the wrong one shows; two losses, a refusal and a crash.
MCTwo ==
  LET one == CHOOSE k \in Key : TRUE
  IN  {[Plain("mq", {}, [NoFaults EXCEPT !.losses = 2, !.refusals = 1, !.crashes = 1])
         EXCEPT !.requests = {<<k, <<k, IF k = one THEN "settle" ELSE "reject">>>> : k \in Key}]}

\* A loss, a hold and a moving clock, no crash.
MCLive ==
  {[Plain("mq", {"settle", "timeout", "delay", "awpRjct"}, [NoFaults EXCEPT !.losses = 1])
     EXCEPT !.verdicts = {None, "hold"}, !.operations = {"release"}, !.lastSecond = 1]}

\* The smallest deployments that show what the findings say.
MCRace == {[Plain("http", {"settle"}, NoFaults)
              EXCEPT !.verdicts = {"hold"}, !.operations = {"release"}]}
MCCrash == {Plain("mq", {"settle"}, [NoFaults EXCEPT !.crashes = 1])}
MCRelay == {Plain("mq", {"awpRjct"}, NoFaults)}
MCShared == {Plain("mq", {"settle", "reject"}, NoFaults)}
=============================================================================

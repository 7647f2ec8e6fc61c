----------------------------- MODULE MCExchange -----------------------------
(* Instance of Exchange for TLC: a sound request, every way of spoiling one  *)
(* or two of its parts, every near miss of the creditor's routing number,    *)
(* and every configuration of the simulator for the sound one.               *)
EXTENDS Exchange

Sender   == <<9, 9, 1, 0, 0, 0, 0, 0, 9>>
Creditor == <<9, 9, 2, 0, 0, 0, 0, 0, 8>>
MCBank   == {Sender, Creditor, FednowService, <<9, 9, 9, 9, 9, 9, 9, 9, 2>>}

MCReasonCode == {"AC04", "AC01", "E990", "SIMV"}
MCReason == MCReasonCode \cup {"CLOSED"}

-----------------------------------------------------------------------------
(* Requests.                                                               *)

Ref(length, alnum) == Text(<<"reference", length>>, length, FALSE, alnum)

Cents(digits, zero, last) == [digits |-> digits, zero |-> zero, last |-> last]

Uuid(length, dashed, lowerHex, version, variant) ==
  [length |-> length, dashed |-> dashed, lowerHex |-> lowerHex, version |-> version,
   variant |-> variant]

NearMisses ==
  {[Creditor EXCEPT ![i] = c] : i \in 1..9, c \in 0..10}
    \cup {[Creditor EXCEPT ![i] = Creditor[i + 1], ![i + 1] = Creditor[i]] : i \in 1..8}
    \cup {SubSeq(Creditor, 1, 8), Append(Creditor, 0), << >>}

Sound ==
  [reference |-> Ref(10, TRUE), cents |-> Cents(5, FALSE, 0), creditorAgent |-> Creditor,
   purpose |-> "CONS", endToEndId |-> None, uetr |-> None]

\* Other values of each part, at and past its limits.
Others ==
  [reference |-> {Ref(0, TRUE), Ref(1, TRUE), Ref(18, TRUE), Ref(19, TRUE), Ref(10, FALSE)},
   cents     |-> {Cents(1, TRUE, 0), Cents(1, FALSE, 5), Cents(14, FALSE, 99),
                  Cents(15, FALSE, 0), Cents(19, FALSE, 0)},
   creditorAgent |-> {<<9, 9, 9, 9, 9, 9, 9, 9, 2>>, [Creditor EXCEPT ![9] = 9]},
   purpose   |-> {"BIZZ", "SUPP"},
   endToEndId |-> {Ref(0, TRUE), Ref(35, FALSE), Ref(36, TRUE)},
   uetr      |-> {Uuid(36, TRUE, TRUE, "4", "8"), Uuid(36, TRUE, TRUE, "4", "b"),
                  Uuid(36, TRUE, FALSE, "4", "8"), Uuid(36, TRUE, TRUE, "1", "8"),
                  Uuid(36, TRUE, TRUE, "4", "c"), Uuid(32, FALSE, TRUE, "4", "8")}]

Parts == DOMAIN Others

Bodies ==
  {Sound}
    \cup UNION {{[Sound EXCEPT ![p] = v] : v \in Others[p]} : p \in Parts}
    \cup UNION {{[Sound EXCEPT ![p[1]] = v, ![p[2]] = w] :
                  v \in Others[p[1]], w \in Others[p[2]]} : p \in Parts \X Parts}
    \cup {[Sound EXCEPT !.creditorAgent = c] : c \in NearMisses}

-----------------------------------------------------------------------------
(* Gateways and simulators.                                                *)

Played ==
  {Scenario(kind, None) : kind \in {"Settle", "AcceptWithoutPosting", "Timeout", "Delay"}}
    \cup {Scenario("AcwpThen", status) : status \in FollowUp}
    \cup {Scenario(kind, text) : kind \in {"Reject", "RejectService"},
                               text \in {"AC01", "E990", "SIMV", "CLOSED"}}

Amounts == {Cents(5, FALSE, last) : last \in {0, 11, 22, 33, 44, 55, 66}}

Setup(transport, sender, scenarios, body) ==
  [transport |-> transport, sender |-> sender, scenarios |-> scenarios, body |-> body]

\* Settings the gateway does not check: a digit short, one too many, a letter,
\* and a character that is neither.
Senders ==
  {SubSeq(Sender, 1, 8), Append(Sender, 0), [Sender EXCEPT ![3] = Capital],
   [Sender EXCEPT ![3] = OtherChar]}

MCSetups ==
  {Setup("http", sender, << >>, [Sound EXCEPT !.reference = reference]) :
     sender \in Senders, reference \in Others.reference \cup {Ref(17, TRUE), Ref(10, TRUE)}}
  \cup
  {Setup(transport, sender, << >>, body) :
     transport \in {"http", "mq"}, sender \in {Sender, [Sender EXCEPT ![3] = 2]}, body \in Bodies}
    \cup {Setup(transport, Sender, [rtn \in {Creditor} |-> play], [Sound EXCEPT !.cents = cents]) :
           transport \in {"http", "mq"}, play \in Played, cents \in Amounts}
    \cup {Setup(transport, Sender, << >>, [Sound EXCEPT !.cents = cents, !.reference = reference]) :
           transport \in {"http", "mq"}, cents \in Amounts,
           reference \in {Ref(1, TRUE), Ref(18, TRUE)}}
=============================================================================

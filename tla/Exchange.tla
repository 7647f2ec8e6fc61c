------------------------------ MODULE Exchange ------------------------------
(***************************************************************************)
(* What one payment's messages say, from the client's request to the       *)
(* advice the gateway believes (gateway/src/service.rs, southbound.rs,     *)
(* payment.rs; simulator/src/lib.rs): the gateway builds and validates a   *)
(* pacs.008, sends it bare over HTTP or in an envelope over MQ, the        *)
(* simulator validates it again, picks a scenario and answers with         *)
(* pacs.002 advices, and the gateway asks with a pacs.028 if it hears      *)
(* nothing.                                                                *)
(*                                                                         *)
(* Gateway models who does what when, and treats messages as opaque; here  *)
(* a handler is one step, there is one payment, and messages have content. *)
(***************************************************************************)
EXTENDS Message

CONSTANTS
  Bank,           \* routing numbers of the participants
  Setups,         \* the settings and the request of each instance
  MaxQueries,     \* no more pacs.028 than this
  MaxLosses       \* no more lost responses than this

\* transport and sender: FEDNOW_GW_SOUTHBOUND and FEDNOW_GW_SENDER_RTN;
\* scenarios: the simulator's configuration, by the creditor's routing number;
\* body: what the client posts.
SetupFields == {"transport", "sender", "scenarios", "body"}

ScenarioKind == {"Settle", "AcceptWithoutPosting", "AcwpThen", "Reject",
                 "RejectService", "Timeout", "Delay"}

\* detail: the reason of a rejection, or the status that follows an ACWP.
Scenario(kind, detail) == [kind |-> kind, detail |-> detail]

FollowUp == {"ACCC", "BLCK", "RJCT", "PDNG"}

BodyRecord ==
  [reference  : Reference,              cents : CentsRecord, creditorAgent : Number,
   endToEndId : Reference \cup {None}, uetr : UetrRecord \cup {None}, purpose : Purpose]

ASSUME ExchangeAssumption ==
  /\ {MaxQueries, MaxLosses} \subseteq Nat
  /\ {"AC04", "E990", "SIMV"} \subseteq ReasonCode
  /\ \A s \in Setups :
       /\ DOMAIN s = SetupFields
       /\ s.transport \in {"http", "mq"}
       /\ s.sender \in Number /\ s.body \in BodyRecord
       /\ \A rtn \in DOMAIN s.scenarios :
            LET x == s.scenarios[rtn]
            IN  /\ x.kind \in ScenarioKind
                /\ x.kind \in {"Reject", "RejectService"} => x.detail \in Reason
                /\ x.kind = "AcwpThen" => x.detail \in FollowUp

\* What a slip of the hand makes of the number b: a digit or two neighbours are
\* wrong.  No checksum of weights 3, 7 and 1 tells digits five apart from their
\* transposition.
Mistyped(n, b) ==
  \/ \E i \in 1..9 : \E c \in Digit \ {b[i]} : n = [b EXCEPT ![i] = c]
  \/ \E i \in 1..8 : /\ b[i] - b[i + 1] \notin {-5, 0, 5}
                    /\ n = [b EXCEPT ![i] = b[i + 1], ![i + 1] = b[i]]

\* The sum that banks' numbers are issued with: it ends in zero.
WeightedSum(d) ==
  3 * (d[1] + d[4] + d[7]) + 7 * (d[2] + d[5] + d[8]) + d[3] + d[6] + d[9]

\* The number a setup names is a bank's, mistyped, or not of the form of one.
ASSUME BankAssumption ==
  /\ \A b \in Bank : b \in [1..9 -> Digit] /\ WeightedSum(b) % 10 = 0
  /\ \A s \in Setups : \A n \in {s.sender, s.body.creditorAgent} :
       \/ n \in Bank \/ Len(n) # 9 \/ ~AllDigits(n)
       \/ \E b \in Bank : Mistyped(n, b)

\* The aggregate's own rules.  One payment, one message: it needs no contents.
Aggregate == INSTANCE Payment WITH
  Message <- {"pacs.008"}, Sha256 <- [m \in {"pacs.008"} |-> "sha256"], Time <- {0}

\* What the gateway makes of an advice.
Reports == [status : Aggregate!AdviceStatus, reason : Reason \cup {None}]

ASSUME AggregateAssumption == None \notin Aggregate!PaymentRecord \cup Reports

VARIABLES
  setup,
  payment,        \* the aggregate, None before the submission
  reason,         \* its rejection_reason
  issues,         \* codes the client was refused with
  outbox,         \* the unpublished pacs.008
  ledger,         \* the simulator's advices, by original message id
  queue,          \* the participant's receive queue
  tasks,          \* envelopes spawned tasks will enqueue
  sent,           \* history: what the gateway put on the wire
  heard,          \* history: the reports payments were moved by
  misread,        \* history: a message its receiver could do nothing with
  losses          \* responses lost so far

simVars == <<ledger, queue, tasks>>
vars == <<setup, payment, reason, issues, outbox, simVars, sent, heard, misread, losses>>

Body == setup.body
OverMq == setup.transport = "mq"

Init ==
  /\ setup \in Setups
  /\ payment = None /\ reason = None /\ issues = {} /\ outbox = None
  /\ ledger = << >> /\ queue = << >> /\ tasks = << >>
  /\ sent = << >> /\ heard = {} /\ misread = FALSE /\ losses = 0

-----------------------------------------------------------------------------
(* The gateway's documents.                                                *)

MessageIdentification == FednowMessageId("submitted", setup.sender, Body.reference)

EndToEndIdentification ==
  IF Body.endToEndId = None THEN Body.reference ELSE Body.endToEndId

\* The handler writes the time it read in UTC.
CreationDateTime == "utc"

Pacs008 ==
  BuildPacs008(MessageIdentification, CreationDateTime, EndToEndIdentification,
               Body.cents, setup.sender, Body.creditorAgent, "today", Body.purpose, Body.uetr)

\* Of a count of 32 bits, which has ten at most.
DecimalDigits(n) == 1 + Cardinality({k \in 1..9 : n >= 10^k})

\* Numbered per payment, and dated the day it is asked.
QueryReference(n) == Text(<<"Q", n>>, 1 + DecimalDigits(n), FALSE, TRUE)

Pacs028(n) ==
  BuildPacs028(FednowMessageId("asked", setup.sender, QueryReference(n)), CreationDateTime,
               OriginalTransfer(MessageIdentification, CreationDateTime),
               EndToEndIdentification, Body.uetr, setup.sender, FednowService)

\* The header reuses the document's own identifier and time.
Wrap(wrapper, d) ==
  BuildEnvelope("incoming", wrapper,
    BuildHead001(setup.sender, FednowService, d.messageId, d.xmlns, d.created), d)

OnTheWire(wrapper, d) == IF OverMq THEN Wrap(wrapper, d) ELSE d

-----------------------------------------------------------------------------
(* The simulator.                                                          *)

Decide(d) ==
  LET tx    == d.transactions[1]
      cents == tx.amount.value.last
  IN  IF tx.creditorAgent.member \in DOMAIN setup.scenarios
      THEN setup.scenarios[tx.creditorAgent.member]
      ELSE CASE cents = 11 -> Scenario("Reject", "AC04")
             [] cents = 22 -> Scenario("AcceptWithoutPosting", None)
             [] cents = 33 -> Scenario("Timeout", None)
             [] cents = 44 -> Scenario("Delay", None)
             [] cents = 55 -> Scenario("RejectService", "E990")
             [] cents = 66 -> Scenario("AcwpThen", "ACCC")
             [] OTHER      -> Scenario("Settle", None)

MutWholeAdviceId(id) == Text(<<"SIM", id.name>>, 3 + id.length, FALSE, id.alnum)

AdviceId(id) == Text(<<"SIM", id.name>>, 3 + SmallerOf(id.length, 32), FALSE, id.alnum)

FollowUpAdviceId(id) == Text(<<"SIMF", id.name>>, 4 + SmallerOf(id.length, 31), FALSE, id.alnum)

AgentRtn(agent) ==
  IF agent = None \/ agent.member = None THEN FednowService ELSE agent.member

About(d, id, status, reasons, accepted, settled) ==
  LET tx == d.transactions[1]
  IN  BuildPacs002(id, OriginalTransfer(d.messageId, d.created), tx.endToEndId, tx.uetr,
                   status, reasons, accepted, settled,
                   AgentRtn(tx.instructing), AgentRtn(tx.instructed))

Coded(code)    == <<[code |-> code, proprietary |-> None]>>
Own(code)      == <<[code |-> None, proprietary |-> code]>>

\* What the payment came to: a timeout and a delay settle unadvised.
AdviceXml(d, scenario) ==
  LET id == AdviceId(d.messageId)
  IN  CASE scenario.kind \in {"Settle", "Timeout", "Delay"} ->
             About(d, id, "ACSC", << >>, "utc", "today")
        [] scenario.kind \in {"AcceptWithoutPosting", "AcwpThen"} ->
             About(d, id, "ACWP", << >>, "utc", None)
        [] scenario.kind = "Reject"        -> About(d, id, "RJCT", Coded(scenario.detail), None, None)
        [] scenario.kind = "RejectService" -> About(d, id, "RJCT", Own(scenario.detail), None, None)

FollowUpAdviceXml(d, status) ==
  About(d, FollowUpAdviceId(d.messageId), status,
        IF status = "RJCT" THEN Coded("AC04") ELSE << >>, None, None)

LedgerEntry(d, scenario) ==
  <<AdviceXml(d, scenario)>>
    \o IF scenario.kind = "AcwpThen" THEN <<FollowUpAdviceXml(d, scenario.detail)>> ELSE << >>

WrapAdvice(advice, id) ==
  BuildEnvelope("outgoing", "FedNowPaymentStatus",
    BuildHead001(FednowService, setup.sender, [id EXCEPT !.length = SmallerOf(@, 35)],
                 "pacs.002.001.10", "utc"),
    advice)

\* Profile-invalid messages are rejected whatever the scenario.
ScenarioOf(d) ==
  LET found == IF OverMq THEN ValidateEnvelope(Wrap("FedNowCustomerCreditTransfer", d))
               ELSE ValidatePacs008(d)
  IN  IF found = {} THEN Decide(d) ELSE Scenario("RejectService", "SIMV")

\* The pacs.008 arrives: the ledger's entry replaces any the id had; over MQ the
\* advices go to the queue, now or from a task.
HandlePacs008(d) ==
  LET scenario == ScenarioOf(d)
      entry    == LedgerEntry(d, scenario)
      advice   == WrapAdvice(entry[1], AdviceId(d.messageId))
  IN  /\ ledger' = [id \in DOMAIN ledger \cup {d.messageId} |->
                      IF id = d.messageId THEN entry ELSE ledger[id]]
      /\ queue' = IF OverMq /\ scenario.kind \notin {"Timeout", "Delay"}
                  THEN Append(queue, advice) ELSE queue
      /\ tasks' = CASE OverMq /\ scenario.kind = "Delay"    -> Append(tasks, advice)
                    [] OverMq /\ scenario.kind = "AcwpThen" ->
                         Append(tasks, WrapAdvice(entry[2], FollowUpAdviceId(d.messageId)))
                    [] OTHER -> tasks

ReplyToPacs008(d) ==
  IF OverMq \/ ScenarioOf(d).kind = "Timeout" THEN None
  ELSE AdviceXml(d, ScenarioOf(d))

\* The latest advice about the message a pacs.028 asks about, None if the
\* simulator refuses the request.
LatestAdvice(d) ==
  LET id == d.transactions[1].original.messageId
  IN  IF ValidatePacs028(d) # {} \/ id \notin DOMAIN ledger THEN None
      ELSE ledger[id][Len(ledger[id])]

HandlePacs028(d) ==
  /\ UNCHANGED <<ledger, tasks>>
  /\ queue' = IF OverMq /\ LatestAdvice(d) # None
              THEN Append(queue, WrapAdvice(LatestAdvice(d), LatestAdvice(d).messageId))
              ELSE queue

Push ==
  /\ tasks # << >>
  /\ tasks' = Tail(tasks)
  /\ queue' = Append(queue, Head(tasks))
  /\ UNCHANGED <<setup, payment, reason, issues, outbox, ledger, sent, heard, misread, losses>>

-----------------------------------------------------------------------------
(* The gateway.                                                            *)

MutCodeOnly(d) ==
  LET tx == d.transactions[1]
  IN  IF tx.status \notin Aggregate!AdviceStatus THEN None
      ELSE [status |-> tx.status,
            reason |-> IF tx.reasons = << >> THEN None ELSE tx.reasons[1].code]

\* The status, and the first reason: its code, else its proprietary text.
AdviceFromPacs002(d) ==
  LET tx == d.transactions[1]
      r  == tx.reasons[1]
  IN  IF tx.status \notin Aggregate!AdviceStatus THEN None
      ELSE [status |-> tx.status,
            reason |-> IF tx.reasons = << >> THEN None
                       ELSE IF r.code # None THEN r.code ELSE r.proprietary]

\* append of the advice to a payment that stands at p.
TakeAdvice(p, d) ==
  LET report == AdviceFromPacs002(d)
      event  == Aggregate!AdviceReceived(report.status)
  IN  IF report = None
      THEN payment' = p /\ misread' = TRUE /\ UNCHANGED <<reason, heard>>
      ELSE /\ payment' = Aggregate!Apply(p, event)
           /\ heard' = IF Aggregate!Legal(p, event) THEN heard \cup {report} ELSE heard
           /\ reason' = IF p.state # "REJECTED" /\ payment'.state = "REJECTED"
                        THEN report.reason ELSE reason
           /\ UNCHANGED misread

\* submit: an invalid message leaves the payment CREATED, and the client learns
\* every rule it broke.
Submit ==
  /\ payment = None
  /\ issues' = ValidatePacs008(Pacs008)
  /\ LET created == Aggregate!NewPayment("pacs.008")
     IN  IF issues' = {}
         THEN /\ payment' = Aggregate!Apply(Aggregate!Apply(created, Aggregate!Validated),
                                            Aggregate!Submitted)
              /\ outbox' = Pacs008
         ELSE payment' = created /\ UNCHANGED outbox
  /\ UNCHANGED <<setup, reason, simVars, sent, heard, misread, losses>>

SendTransfer ==
  /\ outbox # None
  /\ HandlePacs008(outbox)
  /\ sent' = Append(sent, OnTheWire("FedNowCustomerCreditTransfer", outbox))

MutPublishKeepsEntry ==
  /\ SendTransfer
  /\ LET published == Aggregate!Apply(payment, Aggregate!Published(0))
     IN  IF ReplyToPacs008(outbox) = None
         THEN payment' = published /\ UNCHANGED <<reason, heard, misread>>
         ELSE TakeAdvice(published, ReplyToPacs008(outbox))
  /\ UNCHANGED <<setup, issues, outbox, losses>>

\* publish_pending: no answer but "accepted" over MQ.
Publish ==
  /\ SendTransfer
  /\ outbox' = None
  /\ LET published == Aggregate!Apply(payment, Aggregate!Published(0))
     IN  IF ReplyToPacs008(outbox) = None
         THEN payment' = published /\ UNCHANGED <<reason, heard, misread>>
         ELSE TakeAdvice(published, ReplyToPacs008(outbox))
  /\ UNCHANGED <<setup, issues, losses>>

Lose == losses < MaxLosses /\ losses' = losses + 1

\* The response is lost: the entry stays and will be sent again.
PublishUnanswered ==
  /\ SendTransfer
  /\ Lose
  /\ UNCHANGED <<setup, payment, reason, issues, outbox, heard, misread>>

\* poll_advice and apply_advice_envelope.
Receive ==
  /\ queue # << >>
  /\ queue' = Tail(queue)
  /\ LET e == Head(queue)
     IN  IF /\ Parses(e) /\ e.document.xmlns = "pacs.002.001.10"
            /\ e.document.transactions[1].original # None
            /\ e.document.transactions[1].original.messageId = MessageIdentification
         THEN TakeAdvice(payment, e.document)
         ELSE misread' = TRUE /\ UNCHANGED <<payment, reason, heard>>
  /\ UNCHANGED <<setup, issues, outbox, ledger, tasks, sent, losses>>

\* reconcile, once the answer is overdue.
DeclareTimeout ==
  /\ payment # None
  /\ Aggregate!Legal(payment, Aggregate!TimeoutDeclared)
  /\ payment' = Aggregate!Apply(payment, Aggregate!TimeoutDeclared)
  /\ UNCHANGED <<setup, reason, issues, outbox, simVars, sent, heard, misread, losses>>

\* reconcile, asking: the query is recorded, then sent.
Asked == Aggregate!Apply(payment, Aggregate!QuerySent(0))

SendQuery ==
  /\ payment # None /\ Aggregate!Legal(payment, Aggregate!QuerySent(0))
  /\ payment.queries < MaxQueries
  /\ HandlePacs028(Pacs028(Asked.queries))
  /\ sent' = Append(sent, OnTheWire("FedNowPaymentStatusRequest", Pacs028(Asked.queries)))

Query ==
  LET answer == LatestAdvice(Pacs028(Asked.queries))
  IN  /\ SendQuery
      /\ IF ~OverMq /\ answer # None THEN TakeAdvice(Asked, answer)
         ELSE /\ payment' = Asked
              /\ misread' = (misread \/ answer = None)
              /\ UNCHANGED <<reason, heard>>
      /\ UNCHANGED <<setup, issues, outbox, losses>>

\* The response is lost; over MQ the advice is on the queue all the same.
QueryUnanswered ==
  /\ SendQuery
  /\ payment' = Asked
  /\ Lose
  /\ UNCHANGED <<setup, reason, issues, outbox, heard, misread>>

Next ==
  \/ Submit
  \/ Publish \/ PublishUnanswered
  \/ Push \/ Receive
  \/ DeclareTimeout \/ Query \/ QueryUnanswered

Spec == Init /\ [][Next]_vars

-----------------------------------------------------------------------------
(* Properties.                                                             *)

\* The types of every variable; a payment with a message still to publish is
\* SUBMITTED, and each message sent is the one publication that succeeded, a
\* query, or one whose response was lost.
TypeOK ==
  /\ DOMAIN setup = SetupFields
  /\ payment # None => payment \in Aggregate!PaymentRecord /\ payment.queries <= MaxQueries
  /\ reason \in Reason \cup {None}
  /\ outbox \in Pacs008Record \cup {None}
  /\ outbox # None => payment # None /\ payment.state = "SUBMITTED"
  /\ DOMAIN ledger \subseteq {MessageIdentification}
  /\ \A id \in DOMAIN ledger : ledger[id] \in Seq(Pacs002Record)
  /\ Len(sent) <= 1 + MaxQueries + MaxLosses
  /\ heard \subseteq Reports
  /\ misread \in BOOLEAN
  /\ losses \in 0..MaxLosses

\* UUIDs of version 4 in lower case, with their dashes.
GoodUetr ==
  [length : {36}, dashed : {TRUE}, lowerHex : {TRUE}, version : {"4"},
   variant : {"8", "9", "a", "b"}]

\* What is wrong with a submission, by the limits the API documents
\* (http.rs:216-232, validate.rs:1785-1786, 1849) rather than by the checks.  A
\* reference is judged by the message id it makes with the sender's number, so
\* not at all when that has not nine letters and digits.
Defects ==
  LET nine  == Len(setup.sender) = 9 /\ \A i \in 1..9 : setup.sender[i] # OtherChar
      sound == [routing   |-> {setup.sender, Body.creditorAgent} \subseteq Bank,
                sender    |-> nine,
                reference |-> nine => Body.reference.length \in 1..18 /\ Body.reference.alnum,
                amount    |-> ~Body.cents.zero /\ Body.cents.digits <= 14,
                purpose   |-> Body.purpose \in {"CONS", "BIZZ"},
                endToEnd  |-> EndToEndIdentification.length \in 1..35,
                uetr      |-> Body.uetr \in GoodUetr \cup {None}]
  IN  {part \in DOMAIN sound : ~sound[part]}

NamedBy ==
  [routing   |-> {"fednow.aba.format", "fednow.aba.checksum"},
   sender    |-> {"fednow.aba.format", "fednow.msgid.format", "xsd.msgid.length"},
   reference |-> {"fednow.msgid.format", "xsd.msgid.length"},
   amount    |-> {"fednow.amount.positive", "fednow.amount.digits", "xsd.amount.format"},
   purpose   |-> {"fednow.ctgypurp.known"},
   endToEnd  |-> {"xsd.endtoendid.length"},
   uetr      |-> {"xsd.uetr.pattern"}]

\* A payment gets past CREATED exactly when its request keeps every documented
\* limit: the longest reference and the largest amount are accepted, one more is
\* not, and a routing number mistyped in one digit, or with two neighbours
\* swapped unless they are five apart, never passes for a bank's (submit,
\* validate_pacs008).
AcceptedWithinLimits ==
  payment # None => (payment.state # "CREATED" <=> Defects = {})

\* A refused client is told of every defect its request has, not the first one
\* found, and of none it does not have (submit, ServiceError::Validation).
RefusalNamesEveryDefect ==
  payment # None /\ payment.state = "CREATED" =>
    /\ \A part \in Defects : issues \cap NamedBy[part] # {}
    /\ issues \subseteq UNION {NamedBy[part] : part \in Defects}

KeepsTheProfile(m) ==
  IF OverMq THEN Parses(m) /\ ValidateEnvelope(m) = {}
  ELSE IF m.xmlns = "pacs.008.001.08" THEN ValidatePacs008(m) = {}
  ELSE ValidatePacs028(m) = {}

\* The simulator writes the reason it is configured with as it is, and a Cd of a
\* Rsn takes four characters.
ReasonFlaw ==
  LET x == Decide(Pacs008)
  IN  Unless(x.kind = "Reject" => x.detail \in ReasonCode, "xsd.stsrsn.length")

\* Everything the gateway writes keeps the profile its reader checks it by, header
\* and envelope included, though it validates only the pacs.008 itself before it
\* accepts a payment.  So do the simulator's advices, which no one validates,
\* but for the reason of a rejection its configuration gives another length: that
\* advice breaks the rule on it and no other (MqSimPort::wrap, reconcile,
\* advice_xml, follow_up_advice_xml, wrap_advice).
TrafficKeepsTheProfile ==
  /\ \A i \in DOMAIN sent : KeepsTheProfile(sent[i])
  /\ \A i \in DOMAIN queue : Parses(queue[i]) /\ ValidateEnvelope(queue[i]) = ReasonFlaw
  /\ \A id \in DOMAIN ledger : \A i \in DOMAIN ledger[id] :
       ValidatePacs002Direction(ledger[id][i], "service") = ReasonFlaw

\* The reports a scenario means the sender to hear, in words of its own.
Meant ==
  LET x == Decide(Pacs008)
      plain(status) == [status |-> status, reason |-> None]
      rejected(code) == [status |-> "RJCT", reason |-> code]
  IN  CASE x.kind \in {"Reject", "RejectService"} -> {rejected(x.detail)}
        [] x.kind = "AcwpThen" ->
             {plain("ACWP"),
              IF x.detail = "RJCT" THEN rejected("AC04") ELSE plain(x.detail)}
        [] x.kind = "AcceptWithoutPosting" -> {plain("ACWP")}
        [] OTHER -> {plain("ACSC")}

\* Every advice reaches the payment it is about with the status and the reason
\* the scenario gave it, by code or proprietary, of any length, in the response or
\* on the queue; no query is refused; and a payment is REJECTED only with that reason
\* (advice_from_pacs002, apply_advice_envelope, handle_pacs028).
AdviceReachesItsPayment ==
  /\ ~misread
  /\ heard \subseteq Meant
  /\ payment # None => (payment.state = "REJECTED" <=> reason # None)
=============================================================================

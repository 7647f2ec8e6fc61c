------------------------------ MODULE Message ------------------------------
(***************************************************************************)
(* The messages of a credit transfer and the rules they must keep: core's  *)
(* builders (builder.rs), its validators (validate.rs) and the technical   *)
(* envelope (envelope.rs), as constant operators.                          *)
(*                                                                         *)
(* A document is a record of the elements some rule reads.  A text is its  *)
(* length, its alphabet and a name that tells it from others; a routing    *)
(* number is spelled out, a digit per element; an amount is what its       *)
(* decimal form has to show.  A validator returns the set of the codes of  *)
(* the violations it finds.                                                *)
(***************************************************************************)
EXTENDS Integers, Sequences, FiniteSets

CONSTANTS
  Reason,         \* texts a status reason may be, as XML gives them back
  ReasonCode,     \* those of one to four characters
  None            \* Rust's Option::None

\* Characters of a routing number: the digits, a capital letter, anything else.
Digit == 0..9
Capital == 10
OtherChar == 11

\* dated: the first eight characters are digits; alnum: all others alphanumeric.
Text(name, length, dated, alnum) ==
  [name |-> name, length |-> length, dated |-> dated, alnum |-> alnum]

SmallerOf(a, b) == IF a < b THEN a ELSE b

-----------------------------------------------------------------------------
(* Lexical rules.                                                          *)

Unless(ok, code) == IF ok THEN {} ELSE {code}

CheckMax35Text(text, code) == Unless(text.length \in 1..35, code)

\* A time is "utc", has an "offset", is "local" without a zone, or "malformed".
IsIsoDateTime(t) == t \in {"utc", "offset", "local"}

\* RFC 3339: a zone is part of it.
IsZoned(t) == t \in {"utc", "offset"}

IsFednowMessageId(t) == t.length \in 18..35 /\ t.dated /\ t.alnum

\* A UUID of version 4 in lower case, from what can be wrong with one.
IsUetr(u) ==
  /\ u.length = 36 /\ u.dashed /\ u.lowerHex
  /\ u.version = "4" /\ u.variant \in {"8", "9", "a", "b"}

MutFiveForSeven(d) ==
  (3 * (d[1] + d[4] + d[7]) + 5 * (d[2] + d[5] + d[8]) + d[3] + d[6] + d[9]) % 10 = 0

AbaChecksumOk(d) ==
  (3 * (d[1] + d[4] + d[7]) + 7 * (d[2] + d[5] + d[8]) + d[3] + d[6] + d[9]) % 10 = 0

AllDigits(s) == \A i \in DOMAIN s : s[i] \in Digit

ValidateRoutingNumber(s) ==
  IF Len(s) # 9 \/ ~AllDigits(s) THEN {"fednow.aba.format"}
  ELSE Unless(AbaChecksumOk(s), "fednow.aba.checksum")

ValidateConnectionPartyId(s) ==
  IF Len(s) # 9 \/ \E i \in DOMAIN s : s[i] \notin Digit \cup {Capital}
  THEN {"fednow.connparty.format"}
  ELSE Unless(AllDigits(s) => AbaChecksumOk(s), "fednow.aba.checksum")

Names == {"pacs.008.001.08", "pacs.002.001.10", "pacs.028.001.03",
          "pacs.004.001.10", "camt.056.001.08", "camt.029.001.09"}

\* Names of the aaaa.nnn.nnn.nn pattern, one of them of another variant: fifteen
\* characters each, so no name here is too long for its element.
IsMessageDefinitionIdentifier(name) ==
  name \in Names \cup {"camt.052.001.08", "pacs.008.002.08"}

IsFrsName(name) == IsMessageDefinitionIdentifier(name) /\ name # "pacs.008.002.08"

-----------------------------------------------------------------------------
(* Amounts.  whole and fraction are numbers of digits.                     *)

\* An amount of cents is its number of decimal digits, whether it is zero, and
\* its last two digits.
FormatCents(cents) ==
  [plain    |-> TRUE,
   whole    |-> IF cents.digits <= 2 THEN 1 ELSE cents.digits - 2,
   fraction |-> 2,
   zero     |-> cents.zero,
   last     |-> cents.last]

ParsesAsDecimal(v) ==
  v.plain /\ v.whole + v.fraction \in 1..18 /\ v.fraction <= 5

ValidateAmount(a) ==
  UNION {
    IF a.currency \notin {"USD", "EUR"} THEN {"xsd.ccy.pattern"}
    ELSE Unless(a.currency = "USD", "fednow.ccy.usd"),
    IF ~ParsesAsDecimal(a.value) THEN {"xsd.amount.format"}
    ELSE UNION {Unless(~a.value.zero, "fednow.amount.positive"),
                Unless(a.value.fraction <= 2, "fednow.amount.cents"),
                Unless(a.value.whole + a.value.fraction <= 14, "fednow.amount.digits")}}

-----------------------------------------------------------------------------
(* Agents and the original message.                                        *)

ValidateFrsAgent(agent) ==
  IF agent.member = None THEN {"fednow.agent.clrsysmmbid"}
  ELSE Unless(agent.scheme = "USABA", "fednow.agent.usaba")
         \cup ValidateRoutingNumber(agent.member)

RequireAgent(agent, code) == IF agent = None THEN {code} ELSE ValidateFrsAgent(agent)

ValidateOriginalGroupInformation(o) ==
  IF o = None THEN {"fednow.orgnlgrpinf.required"}
  ELSE UNION {CheckMax35Text(o.messageId, "xsd.orgnlmsgid.length"),
              Unless(IsFrsName(o.name), "fednow.orgnlmsgnmid.format"),
              IF o.created = None THEN {"fednow.orgnlcredttm.required"}
              ELSE Unless(IsIsoDateTime(o.created), "xsd.orgnlcredttm.format")}

ValidateUetr(uetr) ==
  IF uetr = None THEN {} ELSE Unless(IsUetr(uetr), "xsd.uetr.pattern")

-----------------------------------------------------------------------------
(* pacs.008, the credit transfer.                                          *)

Malformed == -1

ValidateNumberOfTransactions(count, transactions) ==
  CASE count = Malformed -> {"xsd.nboftxs.pattern"}
    [] count # Malformed /\ count # transactions -> {"iso.nboftxs.mismatch"}
    [] count # Malformed /\ count = transactions -> Unless(count = 1, "fednow.nboftxs.one")

ValidatePaymentType(type) ==
  IF type = None THEN {"fednow.pmttpinf.required"}
  ELSE UNION {
    IF type.instrument = None THEN {"fednow.pmttpinf.lclinstrm"}
    ELSE Unless(type.instrument = "FDNA", "fednow.lclinstrm.fdna"),
    IF type.purpose = None THEN {"fednow.pmttpinf.ctgypurp"}
    ELSE Unless(type.purpose \in {"CONS", "BIZZ"}, "fednow.ctgypurp.known")}

ValidateTransaction(tx) ==
  UNION {
    CheckMax35Text(tx.endToEndId, "xsd.endtoendid.length"),
    ValidateUetr(tx.uetr),
    ValidatePaymentType(tx.paymentType),
    ValidateAmount(tx.amount),
    Unless(tx.settlementDate # None, "fednow.intrbksttlmdt.required"),
    RequireAgent(tx.instructing, "fednow.instgagt.required"),
    RequireAgent(tx.instructed, "fednow.instdagt.required"),
    Unless(tx.debtorAccount # None, "fednow.dbtracct.required"),
    Unless(tx.creditorAccount # None, "fednow.cdtracct.required"),
    IF tx.chargeBearer \notin {"DEBT", "CRED", "SHAR", "SLEV"} THEN {"xsd.chrgbr.enum"}
    ELSE Unless(tx.chargeBearer = "SLEV", "fednow.chrgbr.slev"),
    ValidateFrsAgent(tx.debtorAgent),
    ValidateFrsAgent(tx.creditorAgent)}

MutStopAtHeader(d) ==
  LET header == CheckMax35Text(d.messageId, "xsd.msgid.length")
                  \cup Unless(IsFednowMessageId(d.messageId), "fednow.msgid.format")
  IN  IF header # {} THEN header
      ELSE UNION {ValidateTransaction(d.transactions[i]) : i \in DOMAIN d.transactions}

ValidatePacs008(d) ==
  UNION {
    Unless(d.xmlns = "pacs.008.001.08", "xsd.namespace"),
    CheckMax35Text(d.messageId, "xsd.msgid.length"),
    Unless(IsFednowMessageId(d.messageId), "fednow.msgid.format"),
    Unless(IsIsoDateTime(d.created), "xsd.credttm.format"),
    ValidateNumberOfTransactions(d.count, Len(d.transactions)),
    Unless(d.settlementMethod = "CLRG", "fednow.sttlmmtd.clrg"),
    Unless(d.clearingSystem = "FDN", "fednow.clrsys.fdn"),
    UNION {ValidateTransaction(d.transactions[i]) : i \in DOMAIN d.transactions}}

-----------------------------------------------------------------------------
(* pacs.002, the status report.                                            *)

FednowTxStatuses == {"ACTC", "ACCC", "ACSC", "ACWP", "PDNG", "BLCK", "RJCT"}

HasReason(r) == r.code # None \/ r.proprietary # None

CodesFit(reasons) == \A i \in DOMAIN reasons : reasons[i].code \in ReasonCode \cup {None}

\* "ACSP" stands for the codes of up to four characters unknown to FedNow.
ValidateStatusTransaction(tx) ==
  UNION {
    IF tx.endToEndId = None THEN {}
    ELSE CheckMax35Text(tx.endToEndId, "xsd.orgnlendtoendid.length"),
    ValidateUetr(tx.uetr),
    CASE tx.status = None            -> {"fednow.txsts.required"}
      [] tx.status \in FednowTxStatuses -> {}
      [] tx.status = "ACSP"          -> {"fednow.txsts.known"}
      [] OTHER                       -> {"xsd.txsts.length"},
    Unless(tx.status = "RJCT" => \E i \in DOMAIN tx.reasons : HasReason(tx.reasons[i]),
           "fednow.rjct.reason"),
    Unless(CodesFit(tx.reasons), "xsd.stsrsn.length"),
    Unless(tx.accepted = None \/ IsIsoDateTime(tx.accepted), "xsd.accptncdttm.format")}

ValidatePacs002(d) ==
  UNION {
    Unless(d.xmlns = "pacs.002.001.10", "xsd.namespace"),
    CheckMax35Text(d.messageId, "xsd.msgid.length"),
    Unless(IsIsoDateTime(d.created), "xsd.credttm.format"),
    UNION {ValidateStatusTransaction(d.transactions[i]) : i \in DOMAIN d.transactions}}

\* What only a participant is bound to.
ValidateParticipantStatus(tx) ==
  UNION {
    Unless(tx.status # "ACSC", "fednow.txsts.participant"),
    Unless(Len(tx.reasons) <= 1, "fednow.stsrsninf.one"),
    Unless(\A i \in DOMAIN tx.reasons : tx.reasons[i].proprietary = None, "fednow.stsrsn.cd"),
    Unless(tx.accepted = None, "fednow.accptncdttm.absent"),
    Unless(tx.settled = None, "fednow.fctvdt.absent")}

\* The service writes no group-level status, so that rule has no element here.
ValidatePacs002Direction(d, sender) ==
  UNION {
    ValidatePacs002(d),
    Unless(sender = "participant" => IsFednowMessageId(d.messageId), "fednow.msgid.format"),
    Unless(Len(d.transactions) = 1, "fednow.txinfandsts.one"),
    UNION {UNION {
      ValidateOriginalGroupInformation(d.transactions[i].original),
      RequireAgent(d.transactions[i].instructing, "fednow.instgagt.required"),
      RequireAgent(d.transactions[i].instructed, "fednow.instdagt.required"),
      IF sender = "participant" THEN ValidateParticipantStatus(d.transactions[i]) ELSE {}} :
        i \in DOMAIN d.transactions}}

-----------------------------------------------------------------------------
(* pacs.028, the status request.                                           *)

ValidatePacs028(d) ==
  UNION {
    Unless(d.xmlns = "pacs.028.001.03", "xsd.namespace"),
    CheckMax35Text(d.messageId, "xsd.msgid.length"),
    Unless(IsFednowMessageId(d.messageId), "fednow.msgid.format"),
    Unless(IsIsoDateTime(d.created), "xsd.credttm.format"),
    Unless(Len(d.transactions) = 1, "fednow.txinf.one"),
    UNION {UNION {
      ValidateOriginalGroupInformation(d.transactions[i].original),
      ValidateUetr(d.transactions[i].uetr),
      RequireAgent(d.transactions[i].instructing, "fednow.instgagt.required"),
      RequireAgent(d.transactions[i].instructed, "fednow.instdagt.required")} :
        i \in DOMAIN d.transactions}}

-----------------------------------------------------------------------------
(* head.001, the business application header, and the envelope.            *)

\* 993000007
FednowService == <<9, 9, 3, 0, 0, 0, 0, 0, 7>>

PartyMemberId(party) ==
  IF party.institution = None THEN None ELSE party.institution.member

ValidateParty44(party) ==
  CASE party.organisation <=> party.institution # None -> {"xsd.party44.choice"}
    [] party.organisation /\ party.institution = None  -> {"fednow.party.fiid"}
    [] ~party.organisation /\ party.institution # None ->
         IF party.institution.member = None THEN {}
         ELSE Unless(party.institution.scheme = None, "fednow.party.clrsysid")
                \cup ValidateConnectionPartyId(party.institution.member)

MarketPractices(name) ==
  CASE name = "camt.029.001.09" ->
         {"frb.fednow.rrr.01", "frb.fednow.irr.01", "frb.fednow.rcr.01"}
    [] name = "camt.052.001.08" ->
         {"frb.fednow.aat.01", "frb.fednow.aad.01", "frb.fednow.aba.01"}
    [] OTHER -> {"frb.fednow.01"}

\* Ids of the pattern: those some message is due, and one that none is.
IsFednowMarketPracticeId(id) ==
  id \in UNION {MarketPractices(name) : name \in Names \cup {"camt.052.001.08"}}
           \cup {"frb.fednow.xyz.01"}

ValidateMarketPractice(practice, name) ==
  IF practice = None THEN {"fednow.mktprctc.required"}
  ELSE Unless(practice.registry = "FedNow_Service", "fednow.mktprctc.regy")
         \cup IF IsFednowMarketPracticeId(practice.id)
              THEN Unless(practice.id \in MarketPractices(name), "fednow.mktprctc.match")
              ELSE {"fednow.mktprctc.id"}

\* Elements only the service may write, and what a participant's header lacks.
ValidateSender(h) ==
  IF PartyMemberId(h.from) = FednowService THEN {}
  ELSE UNION {
    Unless(PartyMemberId(h.to) = FednowService, "fednow.to.service"),
    Unless(h.processingDate = None, "fednow.bizprcgdt.serviceonly"),
    Unless(h.copyDuplicate = None, "fednow.cpydplct.serviceonly"),
    Unless(h.related = 0, "fednow.rltd.serviceonly")}

ValidateHead001(h) ==
  UNION {
    Unless(h.xmlns = "head.001.001.02", "xsd.namespace"),
    CheckMax35Text(h.businessId, "xsd.bizmsgidr.length"),
    IF ~IsMessageDefinitionIdentifier(h.name) THEN {"iso.msgdefidr.format"}
    ELSE Unless(IsFrsName(h.name), "fednow.msgdefidr.variant"),
    ValidateMarketPractice(h.practice, h.name),
    Unless(h.signature = None, "fednow.sgntr.outofband"),
    IF ~IsIsoDateTime(h.created) THEN {"xsd.credt.format"}
    ELSE Unless(IsZoned(h.created), "fednow.credt.timezone"),
    Unless(h.service = None, "fednow.bizsvc.absent"),
    IF h.copyDuplicate \notin {None, "CODU", "COPY", "DUPL"} THEN {"xsd.cpydplct.enum"}
    ELSE Unless(h.copyDuplicate \in {None, "DUPL"}, "fednow.cpydplct.dupl"),
    ValidateParty44(h.from),
    ValidateParty44(h.to),
    ValidateSender(h),
    Unless(h.related <= 1, "fednow.rltd.one")}

Root == [incoming |-> "FedNowIncoming", outgoing |-> "FedNowOutgoing"]

NamespaceOf == [incoming |-> "urn:fednow:incoming:v001", outgoing |-> "urn:fednow:outgoing:v001"]

Wrappers ==
  [FedNowCustomerCreditTransfer |-> "pacs.008.001.08",
   FedNowPaymentStatus          |-> "pacs.002.001.10",
   FedNowPaymentStatusRequest   |-> "pacs.028.001.03",
   FedNowPaymentReturn          |-> "pacs.004.001.10",
   FedNowReturnRequest          |-> "camt.056.001.08",
   FedNowReturnRequestResponse  |-> "camt.029.001.09"]

BuildEnvelope(direction, wrapper, header, document) ==
  [root |-> Root[direction], xmlns |-> NamespaceOf[direction], wrapper |-> wrapper,
   header |-> header, document |-> document]

\* split: the root alone decides which way an envelope goes.
DirectionOf(e) == CHOOSE direction \in DOMAIN Root : Root[direction] = e.root

\* The document is known by its own namespace, not by its wrapper.
Parses(e) == e.root \in {Root[d] : d \in DOMAIN Root} /\ e.document.xmlns \in Names

ValidateEnvelope(e) ==
  UNION {
    Unless(e.xmlns = NamespaceOf[DirectionOf(e)], "fednow.env.namespace"),
    IF e.wrapper \notin DOMAIN Wrappers THEN {"fednow.env.wrapper.unknown"}
    ELSE Unless(Wrappers[e.wrapper] = e.document.xmlns, "fednow.env.wrapper.match"),
    Unless(e.header.name = e.document.xmlns, "fednow.env.msgdefidr.match"),
    Unless(DirectionOf(e) = "outgoing" => PartyMemberId(e.header.from) = FednowService,
           "fednow.env.fr.service"),
    ValidateHead001(e.header),
    CASE e.document.xmlns = "pacs.008.001.08" -> ValidatePacs008(e.document)
      [] e.document.xmlns = "pacs.028.001.03" -> ValidatePacs028(e.document)
      [] e.document.xmlns = "pacs.002.001.10" ->
           ValidatePacs002Direction(e.document,
             IF DirectionOf(e) = "incoming" THEN "participant" ELSE "service")}

-----------------------------------------------------------------------------
(* Builders.                                                               *)

Agent(routingNumber) == [scheme |-> "USABA", member |-> routingNumber]

FednowMessageId(date, party, reference) ==
  Text(<<date, party, reference.name>>, 8 + Len(party) + reference.length, TRUE,
       reference.alnum /\ \A i \in DOMAIN party : party[i] # OtherChar)

\* Pacs008Builder with the setters submit uses: the agents that instruct and are
\* instructed are the debtor's and the creditor's.
BuildPacs008(messageId, created, endToEndId, cents, debtor, creditor, date, purpose, uetr) ==
  [xmlns |-> "pacs.008.001.08", messageId |-> messageId, created |-> created,
   count |-> 1, settlementMethod |-> "CLRG", clearingSystem |-> "FDN",
   transactions |-> <<
     [endToEndId      |-> endToEndId,
      uetr            |-> uetr,
      paymentType     |-> [instrument |-> "FDNA", purpose |-> purpose],
      amount          |-> [currency |-> "USD", value |-> FormatCents(cents)],
      settlementDate  |-> date,
      chargeBearer    |-> "SLEV",
      instructing     |-> Agent(debtor),
      instructed      |-> Agent(creditor),
      debtorAccount   |-> "debtor's",
      creditorAccount |-> "creditor's",
      debtorAgent     |-> Agent(debtor),
      creditorAgent   |-> Agent(creditor)]>>]

OriginalTransfer(messageId, created) ==
  [messageId |-> messageId, name |-> "pacs.008.001.08", created |-> created]

BuildPacs002(messageId, original, endToEndId, uetr, status, reasons, accepted, settled, from, to) ==
  [xmlns |-> "pacs.002.001.10", messageId |-> messageId, created |-> "utc",
   transactions |-> <<
     [original    |-> original,
      endToEndId  |-> endToEndId,
      uetr        |-> uetr,
      status      |-> status,
      reasons     |-> reasons,
      accepted    |-> accepted,
      settled     |-> settled,
      instructing |-> Agent(from),
      instructed  |-> Agent(to)]>>]

BuildPacs028(messageId, created, original, endToEndId, uetr, instructing, instructed) ==
  [xmlns |-> "pacs.028.001.03", messageId |-> messageId, created |-> created,
   transactions |-> <<
     [original    |-> original,
      endToEndId  |-> endToEndId,
      uetr        |-> uetr,
      instructing |-> Agent(instructing),
      instructed  |-> Agent(instructed)]>>]

BahParty(member) ==
  [organisation |-> FALSE, institution |-> [scheme |-> None, member |-> member]]

BuildHead001(from, to, businessId, name, created) ==
  [xmlns |-> "head.001.001.02", from |-> BahParty(from), to |-> BahParty(to),
   businessId |-> businessId, name |-> name, created |-> created,
   practice |-> [registry |-> "FedNow_Service", id |-> "frb.fednow.01"],
   service |-> None, processingDate |-> None, copyDuplicate |-> None,
   signature |-> None, related |-> 0]

-----------------------------------------------------------------------------
(* Types of what the gateway and the simulator put in these documents.     *)

\* A routing number as somebody wrote it, right or wrong.
Number == Seq(0..11)

MessageTime == {"utc", "offset", "local", "malformed"}

\* "SUPP" stands for every code but the two FedNow knows.
Purpose == {"CONS", "BIZZ", "SUPP"}

TextNamed(N) == [name : N, length : Nat, dated : BOOLEAN, alnum : BOOLEAN]

\* References are a client's or a query's ("Q"); message ids are named by the
\* day and the parts they are made of, advices by the id they answer.
Reference == TextNamed({"reference", "Q"} \X Nat)
MessageIdName == {"submitted", "asked"} \X Number \X ({"reference", "Q"} \X Nat)
MessageId == TextNamed(MessageIdName)
AdviceIdText == TextNamed({"SIM", "SIMF"} \X MessageIdName)

HexDigit == {"0", "1", "2", "3", "4", "5", "6", "7", "8", "9", "a", "b", "c", "d", "e", "f"}

UetrRecord ==
  [length : Nat, dashed : BOOLEAN, lowerHex : BOOLEAN, version : HexDigit, variant : HexDigit]

CentsRecord == [digits : Nat \ {0}, zero : BOOLEAN, last : 0..99]

AmountRecord ==
  [currency : {"USD"},
   value    : [plain : {TRUE}, whole : Nat, fraction : {2}, zero : BOOLEAN, last : 0..99]]

AgentRecord == [scheme : {"USABA"}, member : Number]

PaymentTypeRecord == [instrument : {"FDNA"}, purpose : Purpose]

Pacs008Record ==
  [xmlns : {"pacs.008.001.08"}, messageId : MessageId, created : MessageTime,
   count : Nat, settlementMethod : {"CLRG"}, clearingSystem : {"FDN"},
   transactions : Seq(
     [endToEndId : Reference, uetr : UetrRecord \cup {None}, paymentType : PaymentTypeRecord,
      amount : AmountRecord, settlementDate : {"today"}, chargeBearer : {"SLEV"},
      instructing : AgentRecord, instructed : AgentRecord,
      debtorAccount : {"debtor's"}, creditorAccount : {"creditor's"},
      debtorAgent : AgentRecord, creditorAgent : AgentRecord])]

OriginalRecord ==
  [messageId : MessageId, name : {"pacs.008.001.08"}, created : MessageTime]

Pacs002Record ==
  [xmlns : {"pacs.002.001.10"}, messageId : AdviceIdText, created : MessageTime,
   transactions : Seq(
     [original : OriginalRecord, endToEndId : Reference, uetr : UetrRecord \cup {None},
      status : FednowTxStatuses,
      reasons : Seq([code : Reason \cup {None}, proprietary : Reason \cup {None}]),
      accepted : MessageTime \cup {None}, settled : {"today", None},
      instructing : AgentRecord, instructed : AgentRecord])]

\* None is no value an Option holds here: no code, time or account, and no
\* agent, practice or document.
ASSUME MessageAssumption ==
  /\ ReasonCode \subseteq Reason
  /\ None \notin Reason \cup Purpose \cup MessageTime \cup FednowTxStatuses
  /\ None \notin {"FDNA", "today", "debtor's", "creditor's"}
  /\ None \notin Number \cup AgentRecord \cup PaymentTypeRecord \cup OriginalRecord
  /\ None \notin [scheme : {None}, member : Number] \cup [registry : {"FedNow_Service"}, id : {"frb.fednow.01"}]
  /\ None \notin Pacs008Record \cup Pacs002Record
=============================================================================

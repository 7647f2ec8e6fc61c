-------------------------- MODULE Exchange_proofs --------------------------
(***************************************************************************)
(* Proofs about Exchange, for any setups, any banks, and any bounds on     *)
(* queries and losses.                                                     *)
(***************************************************************************)
EXTENDS Exchange, SequenceTheorems, FiniteSetTheorems, TLAPS

-----------------------------------------------------------------------------
(* The checksum of a routing number.                                       *)

\* aba_checksum_ok is that the weighted sum ends in zero, and that sum is an
\* integer.
LEMMA SumOfDigits ==
  ASSUME NEW b \in [1..9 -> Digit]
  PROVE  /\ b[1] \in Int /\ b[2] \in Int /\ b[3] \in Int /\ b[4] \in Int /\ b[5] \in Int
         /\ b[6] \in Int /\ b[7] \in Int /\ b[8] \in Int /\ b[9] \in Int
         /\ WeightedSum(b) \in Int
         /\ AbaChecksumOk(b) <=> WeightedSum(b) % 10 = 0
<1>1. \A k \in 1..9 : b[k] \in Int
  BY DEF Digit
<1>2. /\ b[1] \in Int /\ b[2] \in Int /\ b[3] \in Int /\ b[4] \in Int /\ b[5] \in Int
      /\ b[6] \in Int /\ b[7] \in Int /\ b[8] \in Int /\ b[9] \in Int
  BY <1>1
<1>3. WeightedSum(b) \in Int
  BY <1>2 DEF WeightedSum
<1>4. AbaChecksumOk(b) <=> WeightedSum(b) % 10 = 0
  BY DEF AbaChecksumOk, WeightedSum
<1>5. QED
  BY <1>2, <1>3, <1>4

\* A wrong digit moves the sum by its weight times its error.
LEMMA OneDigitMoves ==
  ASSUME NEW b \in [1..9 -> Digit], NEW i \in 1..9, NEW c \in Digit
  PROVE  \E w \in {1, 3, 7} :
           WeightedSum([b EXCEPT ![i] = c]) = WeightedSum(b) + w * (c - b[i])
<1> DEFINE n == [b EXCEPT ![i] = c]
<1>1. /\ b[1] \in Int /\ b[2] \in Int /\ b[3] \in Int /\ b[4] \in Int /\ b[5] \in Int
      /\ b[6] \in Int /\ b[7] \in Int /\ b[8] \in Int /\ b[9] \in Int
      /\ c \in Int
  BY SumOfDigits DEF Digit
<1>2. \A k \in 1..9 : n[k] = IF k = i THEN c ELSE b[k]
  OBVIOUS
<1>3. /\ n[1] = IF i = 1 THEN c ELSE b[1]
      /\ n[2] = IF i = 2 THEN c ELSE b[2]
      /\ n[3] = IF i = 3 THEN c ELSE b[3]
      /\ n[4] = IF i = 4 THEN c ELSE b[4]
      /\ n[5] = IF i = 5 THEN c ELSE b[5]
      /\ n[6] = IF i = 6 THEN c ELSE b[6]
      /\ n[7] = IF i = 7 THEN c ELSE b[7]
      /\ n[8] = IF i = 8 THEN c ELSE b[8]
      /\ n[9] = IF i = 9 THEN c ELSE b[9]
  BY <1>2
<1> HIDE DEF n
<1>4. i \in {1, 4, 7} => WeightedSum(n) = WeightedSum(b) + 3 * (c - b[i])
  BY <1>1, <1>3 DEF WeightedSum
<1>5. i \in {2, 5, 8} => WeightedSum(n) = WeightedSum(b) + 7 * (c - b[i])
  BY <1>1, <1>3 DEF WeightedSum
<1>6. i \in {3, 6, 9} => WeightedSum(n) = WeightedSum(b) + 1 * (c - b[i])
  BY <1>1, <1>3 DEF WeightedSum
<1>7. i \in {1, 4, 7} \cup {2, 5, 8} \cup {3, 6, 9}
  OBVIOUS
<1>8. QED
  BY <1>4, <1>5, <1>6, <1>7 DEF n

\* Swapped neighbours move the sum by the difference of their weights times
\* that of the digits.
LEMMA NeighboursMove ==
  ASSUME NEW b \in [1..9 -> Digit], NEW i \in 1..8
  PROVE  \E w \in {-4, 6, -2} :
           WeightedSum([b EXCEPT ![i] = b[i + 1], ![i + 1] = b[i]])
             = WeightedSum(b) + w * (b[i + 1] - b[i])
<1> DEFINE n == [b EXCEPT ![i] = b[i + 1], ![i + 1] = b[i]]
<1>1. /\ b[1] \in Int /\ b[2] \in Int /\ b[3] \in Int /\ b[4] \in Int /\ b[5] \in Int
      /\ b[6] \in Int /\ b[7] \in Int /\ b[8] \in Int /\ b[9] \in Int
  BY SumOfDigits
<1>2. \A k \in 1..9 :
        n[k] = IF k = i THEN b[i + 1] ELSE IF k = i + 1 THEN b[i] ELSE b[k]
  OBVIOUS
<1>3. /\ n[1] = IF i = 1 THEN b[2] ELSE b[1]
      /\ n[2] = IF i = 2 THEN b[3] ELSE IF i = 1 THEN b[1] ELSE b[2]
      /\ n[3] = IF i = 3 THEN b[4] ELSE IF i = 2 THEN b[2] ELSE b[3]
      /\ n[4] = IF i = 4 THEN b[5] ELSE IF i = 3 THEN b[3] ELSE b[4]
      /\ n[5] = IF i = 5 THEN b[6] ELSE IF i = 4 THEN b[4] ELSE b[5]
      /\ n[6] = IF i = 6 THEN b[7] ELSE IF i = 5 THEN b[5] ELSE b[6]
      /\ n[7] = IF i = 7 THEN b[8] ELSE IF i = 6 THEN b[6] ELSE b[7]
      /\ n[8] = IF i = 8 THEN b[9] ELSE IF i = 7 THEN b[7] ELSE b[8]
      /\ n[9] = IF i = 8 THEN b[8] ELSE b[9]
  BY <1>2
<1> HIDE DEF n
<1>4. CASE i \in {1, 4, 7}
  <2>1. WeightedSum(n) = WeightedSum(b) + (-4) * (b[i + 1] - b[i])
    BY <1>1, <1>3, <1>4 DEF WeightedSum
  <2>2. QED
    BY <2>1 DEF n
<1>5. CASE i \in {2, 5, 8}
  <2>1. WeightedSum(n) = WeightedSum(b) + 6 * (b[i + 1] - b[i])
    BY <1>1, <1>3, <1>5 DEF WeightedSum
  <2>2. QED
    BY <2>1 DEF n
<1>6. CASE i \in {3, 6}
  <2>1. WeightedSum(n) = WeightedSum(b) + (-2) * (b[i + 1] - b[i])
    BY <1>1, <1>3, <1>6 DEF WeightedSum
  <2>2. QED
    BY <2>1 DEF n
<1>7. i \in {1, 4, 7} \cup {2, 5, 8} \cup {3, 6}
  OBVIOUS
<1>8. QED
  BY <1>4, <1>5, <1>6, <1>7

\* Ten divides no such move of its weight: an error of a digit shows, and a
\* difference of neighbours unless they are five apart.
LEMMA MoveShows ==
  ASSUME NEW sum \in Int, sum % 10 = 0, NEW d \in -9..9
  PROVE  /\ \A w \in {1, 3, 7} : d # 0 => (sum + w * d) % 10 # 0
         /\ \A w \in {-4, 6, -2} : d \notin {-5, 0, 5} => (sum + w * d) % 10 # 0
OBVIOUS

\* A mistyped number of a bank fails its checksum.
LEMMA MistypedShows ==
  ASSUME NEW b \in [1..9 -> Digit], AbaChecksumOk(b), NEW n, Mistyped(n, b)
  PROVE  n \in [1..9 -> Digit] /\ ~AbaChecksumOk(n)
<1>1. WeightedSum(b) \in Int /\ WeightedSum(b) % 10 = 0
  BY SumOfDigits
<1>2. CASE \E i \in 1..9 : \E c \in Digit \ {b[i]} : n = [b EXCEPT ![i] = c]
  <2>1. PICK i \in 1..9, c \in Digit : c # b[i] /\ n = [b EXCEPT ![i] = c]
    BY <1>2
  <2>2. PICK w \in {1, 3, 7} : WeightedSum(n) = WeightedSum(b) + w * (c - b[i])
    BY <2>1, OneDigitMoves
  <2>3. c - b[i] \in -9..9 /\ c - b[i] # 0
    <3>1. b[i] \in 0..9 /\ c \in 0..9
      BY DEF Digit
    <3>2. QED
      BY <2>1, <3>1
  <2>4. WeightedSum(n) % 10 # 0
    BY <1>1, <2>2, <2>3, MoveShows
  <2>5. n \in [1..9 -> Digit]
    BY <2>1
  <2>6. QED
    BY <2>4, <2>5, SumOfDigits
<1>3. CASE \E i \in 1..8 : /\ b[i] - b[i + 1] \notin {-5, 0, 5}
                           /\ n = [b EXCEPT ![i] = b[i + 1], ![i + 1] = b[i]]
  <2>1. PICK i \in 1..8 : /\ b[i] - b[i + 1] \notin {-5, 0, 5}
                          /\ n = [b EXCEPT ![i] = b[i + 1], ![i + 1] = b[i]]
    BY <1>3
  <2>2. PICK w \in {-4, 6, -2} : WeightedSum(n) = WeightedSum(b) + w * (b[i + 1] - b[i])
    BY <2>1, NeighboursMove
  <2>3. b[i] \in Digit /\ b[i + 1] \in Digit
    OBVIOUS
  <2>4. b[i + 1] - b[i] \in -9..9 /\ b[i + 1] - b[i] \notin {-5, 0, 5}
    BY <2>1, <2>3 DEF Digit
  <2>5. WeightedSum(n) % 10 # 0
    BY <1>1, <2>2, <2>4, MoveShows
  <2>6. n \in [1..9 -> Digit]
    BY <2>1, <2>3
  <2>7. QED
    BY <2>5, <2>6, SumOfDigits
<1>4. QED
  BY <1>2, <1>3 DEF Mistyped

\* validate_routing_number accepts, of the numbers a setup names, the banks'.
LEMMA BanksAreAccepted ==
  ASSUME NEW s \in Setups, NEW n \in {s.sender, s.body.creditorAgent}
  PROVE  /\ n \in Number
         /\ n \in Bank <=> ValidateRoutingNumber(n) = {}
         /\ n \in Bank => Len(n) = 9 /\ AllDigits(n) /\ AbaChecksumOk(n)
<1>1. n \in Number
  BY ExchangeAssumption DEF BodyRecord
<1>2. ASSUME n \in Bank PROVE Len(n) = 9 /\ AllDigits(n) /\ AbaChecksumOk(n)
  <2>1. n \in [1..9 -> Digit] /\ AbaChecksumOk(n)
    BY <1>2, BankAssumption, SumOfDigits
  <2>2. Len(n) = 9
    BY <1>1, <2>1 DEF Number
  <2>3. QED
    BY <2>1, <2>2 DEF AllDigits
<1>3. ASSUME NEW b \in Bank, Mistyped(n, b) PROVE ~AbaChecksumOk(n)
  BY <1>3, MistypedShows, SumOfDigits, BankAssumption
<1>4. ASSUME n \notin Bank PROVE Len(n) # 9 \/ ~AllDigits(n) \/ ~AbaChecksumOk(n)
  BY <1>3, <1>4, BankAssumption
<1>5. QED
  BY <1>1, <1>2, <1>4 DEF ValidateRoutingNumber, Unless

-----------------------------------------------------------------------------
(* What the client is told about its pacs.008.                             *)

\* The rules that a submission can break.
SubmissionIssues ==
  UNION {
    CheckMax35Text(MessageIdentification, "xsd.msgid.length"),
    Unless(IsFednowMessageId(MessageIdentification), "fednow.msgid.format"),
    CheckMax35Text(EndToEndIdentification, "xsd.endtoendid.length"),
    ValidateUetr(Body.uetr),
    Unless(Body.purpose \in {"CONS", "BIZZ"}, "fednow.ctgypurp.known"),
    ValidateAmount([currency |-> "USD", value |-> FormatCents(Body.cents)]),
    ValidateRoutingNumber(setup.sender),
    ValidateRoutingNumber(Body.creditorAgent)}

\* An agent the builder writes breaks no rule but those of its number.
LEMMA AgentIssues ==
  ASSUME NEW n \in Number
  PROVE  /\ ValidateFrsAgent(Agent(n)) = ValidateRoutingNumber(n)
         /\ \A code : RequireAgent(Agent(n), code) = ValidateRoutingNumber(n)
         /\ Agent(n).member = n /\ Agent(n) # None /\ n # None
<1>1. n # None
  BY MessageAssumption
<1>2. Agent(n) \in AgentRecord
  BY DEF Agent, AgentRecord
<1>3. Agent(n) # None
  BY <1>2, MessageAssumption
<1>4. Agent(n).member = n /\ Agent(n).scheme = "USABA"
  BY DEF Agent
<1>5. ValidateFrsAgent(Agent(n)) = ValidateRoutingNumber(n)
  BY <1>1, <1>4 DEF ValidateFrsAgent, Unless
<1>6. QED
  BY <1>1, <1>3, <1>4, <1>5 DEF RequireAgent

\* validate_pacs008 of what the builder makes of a request.
LEMMA TransferIssues ==
  ASSUME setup \in Setups
  PROVE  ValidatePacs008(Pacs008) = SubmissionIssues
<1> DEFINE d  == Pacs008
           tx == d.transactions[1]
<1>1. setup.sender \in Number /\ Body.creditorAgent \in Number /\ Body.purpose \in Purpose
  BY ExchangeAssumption DEF Body, BodyRecord
<1>2. /\ d.xmlns = "pacs.008.001.08" /\ d.messageId = MessageIdentification
      /\ d.created = "utc" /\ d.count = 1 /\ Len(d.transactions) = 1
      /\ DOMAIN d.transactions = {1} /\ d.settlementMethod = "CLRG" /\ d.clearingSystem = "FDN"
  BY DEF Pacs008, BuildPacs008, CreationDateTime
<1>3. /\ tx.endToEndId = EndToEndIdentification /\ tx.uetr = Body.uetr
      /\ tx.paymentType = [instrument |-> "FDNA", purpose |-> Body.purpose]
      /\ tx.amount = [currency |-> "USD", value |-> FormatCents(Body.cents)]
      /\ tx.settlementDate = "today" /\ tx.chargeBearer = "SLEV"
      /\ tx.debtorAccount = "debtor's" /\ tx.creditorAccount = "creditor's"
      /\ tx.instructing = Agent(setup.sender) /\ tx.instructed = Agent(Body.creditorAgent)
      /\ tx.debtorAgent = Agent(setup.sender) /\ tx.creditorAgent = Agent(Body.creditorAgent)
  BY DEF Pacs008, BuildPacs008
<1> HIDE DEF d, tx
<1>4. ValidatePaymentType(tx.paymentType)
        = Unless(Body.purpose \in {"CONS", "BIZZ"}, "fednow.ctgypurp.known")
  <2>1. tx.paymentType \in PaymentTypeRecord
    BY <1>1, <1>3 DEF PaymentTypeRecord
  <2>2. tx.paymentType # None /\ tx.paymentType.instrument = "FDNA"
        /\ tx.paymentType.purpose = Body.purpose /\ Body.purpose # None /\ "FDNA" # None
    BY <1>1, <1>3, <2>1, MessageAssumption
  <2>3. QED
    BY <2>2 DEF ValidatePaymentType, Unless
<1>5. /\ RequireAgent(tx.instructing, "fednow.instgagt.required") = ValidateRoutingNumber(setup.sender)
      /\ RequireAgent(tx.instructed, "fednow.instdagt.required") = ValidateRoutingNumber(Body.creditorAgent)
      /\ ValidateFrsAgent(tx.debtorAgent) = ValidateRoutingNumber(setup.sender)
      /\ ValidateFrsAgent(tx.creditorAgent) = ValidateRoutingNumber(Body.creditorAgent)
  BY <1>1, <1>3, AgentIssues
<1>6. /\ Unless(tx.settlementDate # None, "fednow.intrbksttlmdt.required") = {}
      /\ Unless(tx.debtorAccount # None, "fednow.dbtracct.required") = {}
      /\ Unless(tx.creditorAccount # None, "fednow.cdtracct.required") = {}
  BY <1>3, MessageAssumption DEF Unless
<1>7. (IF tx.chargeBearer \notin {"DEBT", "CRED", "SHAR", "SLEV"} THEN {"xsd.chrgbr.enum"}
       ELSE Unless(tx.chargeBearer = "SLEV", "fednow.chrgbr.slev")) = {}
  BY <1>3 DEF Unless
<1>8. ValidateTransaction(tx) =
        UNION {CheckMax35Text(EndToEndIdentification, "xsd.endtoendid.length"),
               ValidateUetr(Body.uetr),
               Unless(Body.purpose \in {"CONS", "BIZZ"}, "fednow.ctgypurp.known"),
               ValidateAmount([currency |-> "USD", value |-> FormatCents(Body.cents)]),
               ValidateRoutingNumber(setup.sender), ValidateRoutingNumber(Body.creditorAgent)}
  BY <1>3, <1>4, <1>5, <1>6, <1>7 DEF ValidateTransaction
<1>9. UNION {ValidateTransaction(d.transactions[i]) : i \in DOMAIN d.transactions}
        = ValidateTransaction(tx)
  BY <1>2 DEF tx
<1>10. /\ Unless(d.xmlns = "pacs.008.001.08", "xsd.namespace") = {}
       /\ Unless(IsIsoDateTime(d.created), "xsd.credttm.format") = {}
       /\ ValidateNumberOfTransactions(d.count, Len(d.transactions)) = {}
       /\ Unless(d.settlementMethod = "CLRG", "fednow.sttlmmtd.clrg") = {}
       /\ Unless(d.clearingSystem = "FDN", "fednow.clrsys.fdn") = {}
  BY <1>2 DEF Unless, IsIsoDateTime, ValidateNumberOfTransactions, Malformed
<1>11. ValidatePacs008(d) =
         UNION {CheckMax35Text(MessageIdentification, "xsd.msgid.length"),
                Unless(IsFednowMessageId(MessageIdentification), "fednow.msgid.format"),
                ValidateTransaction(tx)}
  BY <1>2, <1>9, <1>10 DEF ValidatePacs008
<1>12. QED
  BY <1>8, <1>11 DEF d, SubmissionIssues

\* An amount breaks a rule exactly when it is zero or longer than the profile's
\* fourteen digits, and is told so.
LEMMA AmountIssues ==
  ASSUME NEW c \in CentsRecord
  PROVE  LET found == ValidateAmount([currency |-> "USD", value |-> FormatCents(c)])
         IN  /\ found = {} <=> ~c.zero /\ c.digits <= 14
             /\ found \subseteq NamedBy.amount
<1> DEFINE a == [currency |-> "USD", value |-> FormatCents(c)]
           v == FormatCents(c)
<1>1. c.digits \in Nat /\ c.digits >= 1 /\ c.zero \in BOOLEAN
  BY DEF CentsRecord
<1>2. /\ v.plain = TRUE /\ v.fraction = 2 /\ v.zero = c.zero
      /\ v.whole = IF c.digits <= 2 THEN 1 ELSE c.digits - 2
  BY DEF FormatCents
<1>3. a.currency = "USD" /\ a.value = v
  OBVIOUS
<1> HIDE DEF a, v
<1>4. ParsesAsDecimal(v) <=> c.digits <= 18
  BY <1>1, <1>2 DEF ParsesAsDecimal
<1>5. v.whole + v.fraction <= 14 <=> c.digits <= 14
  BY <1>1, <1>2
<1>6. (IF a.currency \notin {"USD", "EUR"} THEN {"xsd.ccy.pattern"}
       ELSE Unless(a.currency = "USD", "fednow.ccy.usd")) = {}
  BY <1>3 DEF Unless
<1>7. Unless(v.fraction <= 2, "fednow.amount.cents") = {}
  BY <1>2 DEF Unless
<1>8. ValidateAmount(a) =
        IF c.digits > 18 THEN {"xsd.amount.format"}
        ELSE Unless(~c.zero, "fednow.amount.positive")
               \cup Unless(c.digits <= 14, "fednow.amount.digits")
  <2>1. CASE c.digits > 18
    BY <1>1, <1>3, <1>4, <1>6, <2>1 DEF ValidateAmount
  <2>2. CASE c.digits <= 18
    BY <1>1, <1>2, <1>3, <1>4, <1>5, <1>6, <1>7, <2>2 DEF ValidateAmount
  <2>3. QED
    BY <1>1, <2>1, <2>2
<1>9. ValidateAmount(a) = {} <=> ~c.zero /\ c.digits <= 14
  BY <1>1, <1>8 DEF Unless
<1>10. ValidateAmount(a) \subseteq NamedBy.amount
  BY <1>8 DEF Unless, NamedBy
<1>11. QED
  BY <1>9, <1>10 DEF a

\* The message id is the day, the sender and the reference: with a sender of
\* nine letters and digits, it is well formed exactly when the reference is.
LEMMA MessageIdIssues ==
  ASSUME setup \in Setups
  PROVE  LET nine  == Len(setup.sender) = 9 /\ \A i \in 1..9 : setup.sender[i] # OtherChar
             found == CheckMax35Text(MessageIdentification, "xsd.msgid.length")
                        \cup Unless(IsFednowMessageId(MessageIdentification), "fednow.msgid.format")
         IN  /\ nine => (found = {} <=> Body.reference.length \in 1..18 /\ Body.reference.alnum)
             /\ found \subseteq NamedBy.reference
             /\ MessageIdentification.length \in Nat
             /\ found = {} => MessageIdentification.length \in 18..35
<1> DEFINE id == MessageIdentification
           n  == setup.sender
           found == CheckMax35Text(id, "xsd.msgid.length")
                      \cup Unless(IsFednowMessageId(id), "fednow.msgid.format")
<1>1. n \in Number /\ Body.reference \in Reference
  BY ExchangeAssumption DEF Body, BodyRecord
<1>2. Len(n) \in Nat /\ DOMAIN n = 1..Len(n)
  BY <1>1 DEF Number
<1>3. Body.reference.length \in Nat /\ Body.reference.alnum \in BOOLEAN
  BY <1>1 DEF Reference, TextNamed
<1>4. /\ id.length = 8 + Len(n) + Body.reference.length /\ id.dated = TRUE
      /\ id.alnum = (Body.reference.alnum /\ \A i \in DOMAIN n : n[i] # OtherChar)
  BY DEF MessageIdentification, FednowMessageId, Text
<1> HIDE DEF id
<1>5. id.length \in Nat
  BY <1>2, <1>3, <1>4
<1>6. found = {} <=> id.length \in 18..35 /\ id.alnum
  BY <1>4, <1>5 DEF CheckMax35Text, Unless, IsFednowMessageId
<1>7. ASSUME Len(n) = 9, \A i \in 1..9 : n[i] # OtherChar
      PROVE  found = {} <=> Body.reference.length \in 1..18 /\ Body.reference.alnum
  <2>1. id.alnum <=> Body.reference.alnum
    BY <1>2, <1>3, <1>4, <1>7
  <2>2. id.length \in 18..35 <=> Body.reference.length \in 1..18
    BY <1>3, <1>4, <1>7
  <2>3. QED
    BY <1>6, <2>1, <2>2
<1>8. found \subseteq NamedBy.reference
  BY DEF CheckMax35Text, Unless, NamedBy
<1> HIDE DEF found, n
<1>9. QED
  BY <1>5, <1>6, <1>7, <1>8 DEF id, found, n

\* The rules a submission breaks are those of its defects: each defect is named
\* by one of its codes, and no code is of anything else.
LEMMA DefectsAreNamed ==
  ASSUME setup \in Setups
  PROVE  /\ \A part \in Defects : SubmissionIssues \cap NamedBy[part] # {}
         /\ SubmissionIssues \subseteq UNION {NamedBy[part] : part \in Defects}
         /\ SubmissionIssues = {} <=> Defects = {}
<1> DEFINE nine == Len(setup.sender) = 9 /\ \A i \in 1..9 : setup.sender[i] # OtherChar
           ids  == CheckMax35Text(MessageIdentification, "xsd.msgid.length")
                     \cup Unless(IsFednowMessageId(MessageIdentification), "fednow.msgid.format")
           ends == CheckMax35Text(EndToEndIdentification, "xsd.endtoendid.length")
           uetrs == ValidateUetr(Body.uetr)
           purposes == Unless(Body.purpose \in {"CONS", "BIZZ"}, "fednow.ctgypurp.known")
           amounts == ValidateAmount([currency |-> "USD", value |-> FormatCents(Body.cents)])
           froms == ValidateRoutingNumber(setup.sender)
           tos   == ValidateRoutingNumber(Body.creditorAgent)
<1>1. SubmissionIssues = UNION {ids, ends, uetrs, purposes, amounts, froms, tos}
  BY DEF SubmissionIssues
<1>2. Body \in BodyRecord /\ setup.sender \in Number
  BY ExchangeAssumption DEF Body
<1>3. /\ amounts = {} <=> ~Body.cents.zero /\ Body.cents.digits <= 14
      /\ amounts \subseteq NamedBy.amount
  BY <1>2, AmountIssues DEF BodyRecord
<1>4. /\ nine => (ids = {} <=> Body.reference.length \in 1..18 /\ Body.reference.alnum)
      /\ ids \subseteq NamedBy.reference /\ ids \subseteq NamedBy.sender
  BY MessageIdIssues DEF NamedBy
<1>5. (froms = {} /\ tos = {}) <=> {setup.sender, Body.creditorAgent} \subseteq Bank
  BY BanksAreAccepted DEF Body
<1>6. froms \subseteq NamedBy.routing /\ tos \subseteq NamedBy.routing
  BY DEF NamedBy, ValidateRoutingNumber, Unless
<1>7. ~nine => "fednow.aba.format" \in froms
  <2>1. ASSUME Len(setup.sender) = 9, NEW i \in 1..9, setup.sender[i] = OtherChar
        PROVE  ~AllDigits(setup.sender)
    <3>1. i \in DOMAIN setup.sender
      BY <1>2, <2>1 DEF Number
    <3>2. QED
      BY <2>1, <3>1 DEF AllDigits, Digit, OtherChar
  <2>2. QED
    BY <2>1 DEF ValidateRoutingNumber
<1>8. /\ ends = {} <=> EndToEndIdentification.length \in 1..35
      /\ ends \subseteq NamedBy.endToEnd
  BY DEF CheckMax35Text, Unless, NamedBy
<1>9. /\ purposes = {} <=> Body.purpose \in {"CONS", "BIZZ"}
      /\ purposes \subseteq NamedBy.purpose
  BY DEF Unless, NamedBy
<1>10. /\ uetrs = {} <=> Body.uetr \in GoodUetr \cup {None}
       /\ uetrs \subseteq NamedBy.uetr
  <2>1. CASE Body.uetr = None
    BY <2>1 DEF ValidateUetr
  <2>2. CASE Body.uetr # None
    <3>1. Body.uetr \in UetrRecord
      BY <1>2, <2>2 DEF BodyRecord
    <3>2. IsUetr(Body.uetr) <=> Body.uetr \in GoodUetr
      BY <3>1 DEF UetrRecord, IsUetr, GoodUetr
    <3>3. QED
      BY <2>2, <3>2 DEF ValidateUetr, Unless, NamedBy
  <2>3. QED
    BY <2>1, <2>2
<1>11. Defects =
         {part \in {"routing", "sender", "reference", "amount", "purpose", "endToEnd", "uetr"} :
            \/ part = "routing"   /\ ~({setup.sender, Body.creditorAgent} \subseteq Bank)
            \/ part = "sender"    /\ ~nine
            \/ part = "reference" /\ nine /\ ~(Body.reference.length \in 1..18 /\ Body.reference.alnum)
            \/ part = "amount"    /\ ~(~Body.cents.zero /\ Body.cents.digits <= 14)
            \/ part = "purpose"   /\ Body.purpose \notin {"CONS", "BIZZ"}
            \/ part = "endToEnd"  /\ EndToEndIdentification.length \notin 1..35
            \/ part = "uetr"      /\ Body.uetr \notin GoodUetr \cup {None}}
  <2> DEFINE sound ==
        [routing   |-> {setup.sender, Body.creditorAgent} \subseteq Bank,
         sender    |-> nine,
         reference |-> nine => Body.reference.length \in 1..18 /\ Body.reference.alnum,
         amount    |-> ~Body.cents.zero /\ Body.cents.digits <= 14,
         purpose   |-> Body.purpose \in {"CONS", "BIZZ"},
         endToEnd  |-> EndToEndIdentification.length \in 1..35,
         uetr      |-> Body.uetr \in GoodUetr \cup {None}]
  <2>1. Defects = {part \in DOMAIN sound : ~sound[part]}
    BY DEF Defects
  <2>2. DOMAIN sound = {"routing", "sender", "reference", "amount", "purpose", "endToEnd", "uetr"}
    OBVIOUS
  <2>3. /\ sound["routing"] <=> {setup.sender, Body.creditorAgent} \subseteq Bank
        /\ sound["sender"] <=> nine
        /\ sound["reference"] <=> (nine => Body.reference.length \in 1..18 /\ Body.reference.alnum)
        /\ sound["amount"] <=> ~Body.cents.zero /\ Body.cents.digits <= 14
        /\ sound["purpose"] <=> Body.purpose \in {"CONS", "BIZZ"}
        /\ sound["endToEnd"] <=> EndToEndIdentification.length \in 1..35
        /\ sound["uetr"] <=> Body.uetr \in GoodUetr \cup {None}
    OBVIOUS
  <2> HIDE DEF sound, nine
  <2>4. QED
    BY <2>1, <2>2, <2>3
<1> DEFINE named(part) == NamedBy[part]
<1>12. /\ named("routing") = NamedBy.routing /\ named("sender") = NamedBy.sender
       /\ named("reference") = NamedBy.reference /\ named("amount") = NamedBy.amount
       /\ named("purpose") = NamedBy.purpose /\ named("endToEnd") = NamedBy.endToEnd
       /\ named("uetr") = NamedBy.uetr /\ "fednow.aba.format" \in NamedBy.sender
  BY DEF NamedBy
<1> HIDE DEF nine, ids, ends, uetrs, purposes, amounts, froms, tos, named
<1>13. ASSUME NEW part \in Defects PROVE SubmissionIssues \cap named(part) # {}
  <2>1. CASE part = "routing"
    BY <1>1, <1>5, <1>6, <1>11, <1>12, <2>1
  <2>2. CASE part = "sender"
    BY <1>1, <1>7, <1>11, <1>12, <2>2
  <2>3. CASE part = "reference"
    BY <1>1, <1>4, <1>11, <1>12, <2>3
  <2>4. CASE part = "amount"
    BY <1>1, <1>3, <1>11, <1>12, <2>4
  <2>5. CASE part = "purpose"
    BY <1>1, <1>9, <1>11, <1>12, <2>5
  <2>6. CASE part = "endToEnd"
    BY <1>1, <1>8, <1>11, <1>12, <2>6
  <2>7. CASE part = "uetr"
    BY <1>1, <1>10, <1>11, <1>12, <2>7
  <2>8. QED
    BY <1>11, <2>1, <2>2, <2>3, <2>4, <2>5, <2>6, <2>7
<1>14. ASSUME NEW code \in SubmissionIssues PROVE \E part \in Defects : code \in named(part)
  <2>1. CASE code \in ids
    <3>1. CASE nine
      BY <1>4, <1>11, <1>12, <2>1, <3>1
    <3>2. CASE ~nine
      BY <1>4, <1>11, <1>12, <2>1, <3>2
    <3>3. QED
      BY <3>1, <3>2
  <2>2. CASE code \in ends
    BY <1>8, <1>11, <1>12, <2>2
  <2>3. CASE code \in uetrs
    BY <1>10, <1>11, <1>12, <2>3
  <2>4. CASE code \in purposes
    BY <1>9, <1>11, <1>12, <2>4
  <2>5. CASE code \in amounts
    BY <1>3, <1>11, <1>12, <2>5
  <2>6. CASE code \in froms \cup tos
    BY <1>5, <1>6, <1>11, <1>12, <2>6
  <2>7. QED
    BY <1>1, <2>1, <2>2, <2>3, <2>4, <2>5, <2>6
<1>15. QED
  BY <1>13, <1>14 DEF named

-----------------------------------------------------------------------------
(* What the two sides write about an accepted submission.                  *)

Accepted == ValidatePacs008(Pacs008) = {}

\* What an accepted submission's parts are known to be.
LEMMA AcceptedParts ==
  ASSUME setup \in Setups, Accepted
  PROVE  /\ setup.sender \in Bank /\ Body.creditorAgent \in Bank
         /\ ValidateRoutingNumber(setup.sender) = {}
         /\ ValidateRoutingNumber(Body.creditorAgent) = {}
         /\ MessageIdentification.length \in 18..35
         /\ IsFednowMessageId(MessageIdentification)
         /\ EndToEndIdentification.length \in 1..35
         /\ ValidateUetr(Body.uetr) = {}
<1>1. SubmissionIssues = {}
  BY TransferIssues DEF Accepted
<1>2. /\ CheckMax35Text(MessageIdentification, "xsd.msgid.length") = {}
      /\ Unless(IsFednowMessageId(MessageIdentification), "fednow.msgid.format") = {}
      /\ CheckMax35Text(EndToEndIdentification, "xsd.endtoendid.length") = {}
      /\ ValidateUetr(Body.uetr) = {}
      /\ ValidateRoutingNumber(setup.sender) = {}
      /\ ValidateRoutingNumber(Body.creditorAgent) = {}
  BY <1>1 DEF SubmissionIssues
<1>3. MessageIdentification.length \in 18..35
  BY <1>2, MessageIdIssues
<1>4. IsFednowMessageId(MessageIdentification) /\ EndToEndIdentification.length \in 1..35
  BY <1>2 DEF CheckMax35Text, Unless
<1>5. setup.sender \in Bank /\ Body.creditorAgent \in Bank
  BY <1>2, BanksAreAccepted DEF Body
<1>6. QED
  BY <1>2, <1>3, <1>4, <1>5

\* The types of what the builders make of a request.
LEMMA TransferType ==
  ASSUME setup \in Setups
  PROVE  /\ Body \in BodyRecord /\ setup.sender \in Number
         /\ MessageIdentification \in MessageId
         /\ EndToEndIdentification \in Reference
         /\ Pacs008 \in Pacs008Record
<1>1. Body \in BodyRecord /\ setup.sender \in Number
  BY ExchangeAssumption DEF Body
<1>2. /\ Body.reference \in Reference /\ Body.endToEndId \in Reference \cup {None}
      /\ Body.creditorAgent \in Number /\ Body.uetr \in UetrRecord \cup {None}
      /\ Body.purpose \in Purpose /\ Body.cents \in CentsRecord
  BY <1>1 DEF BodyRecord
<1>3. EndToEndIdentification \in Reference
  BY <1>2 DEF EndToEndIdentification
<1>4. MessageIdentification \in MessageId
  <2>1. <<"submitted", setup.sender, Body.reference.name>> \in MessageIdName
    BY <1>1, <1>2 DEF MessageIdName, Reference, TextNamed
  <2>2. 8 + Len(setup.sender) + Body.reference.length \in Nat
    BY <1>1, <1>2 DEF Number, Reference, TextNamed
  <2>3. (Body.reference.alnum /\ \A i \in DOMAIN setup.sender : setup.sender[i] # OtherChar)
          \in BOOLEAN
    OBVIOUS
  <2>4. QED
    BY <2>1, <2>2, <2>3
       DEF MessageIdentification, FednowMessageId, Text, MessageId, TextNamed
<1>5. [currency |-> "USD", value |-> FormatCents(Body.cents)] \in AmountRecord
  <2>1. Body.cents.digits \in Nat /\ Body.cents.digits >= 1
    BY <1>2 DEF CentsRecord
  <2>2. (IF Body.cents.digits <= 2 THEN 1 ELSE Body.cents.digits - 2) \in Nat
    BY <2>1
  <2>3. FormatCents(Body.cents)
          \in [plain : {TRUE}, whole : Nat, fraction : {2}, zero : BOOLEAN, last : 0..99]
    BY <1>2, <2>2 DEF FormatCents, CentsRecord
  <2>4. QED
    BY <2>3 DEF AmountRecord
<1>6. Agent(setup.sender) \in AgentRecord /\ Agent(Body.creditorAgent) \in AgentRecord
  BY <1>1, <1>2 DEF Agent, AgentRecord
<1>7. [instrument |-> "FDNA", purpose |-> Body.purpose] \in PaymentTypeRecord
  BY <1>2 DEF PaymentTypeRecord
<1>8. Pacs008 \in Pacs008Record
  <2>1. "utc" \in MessageTime
    BY DEF MessageTime
  <2>2. QED
    BY <1>2, <1>3, <1>4, <1>5, <1>6, <1>7, <2>1
       DEF Pacs008, BuildPacs008, Pacs008Record, CreationDateTime
<1>9. QED
  BY <1>1, <1>3, <1>4, <1>8

\* A header between the service and a participant of a valid number is valid.
LEMMA HeaderIsValid ==
  ASSUME NEW from \in Number, NEW to \in Number,
         ValidateRoutingNumber(from) = {}, ValidateRoutingNumber(to) = {},
         from = FednowService \/ to = FednowService,
         NEW id, id.length \in 1..35,
         NEW name \in {"pacs.008.001.08", "pacs.028.001.03", "pacs.002.001.10"}
  PROVE  ValidateHead001(BuildHead001(from, to, id, name, "utc")) = {}
<1> DEFINE h == BuildHead001(from, to, id, name, "utc")
<1>1. /\ h.xmlns = "head.001.001.02" /\ h.from = BahParty(from) /\ h.to = BahParty(to)
      /\ h.businessId = id /\ h.name = name /\ h.created = "utc"
      /\ h.practice = [registry |-> "FedNow_Service", id |-> "frb.fednow.01"]
      /\ h.service = None /\ h.processingDate = None /\ h.copyDuplicate = None
      /\ h.signature = None /\ h.related = 0
  BY DEF BuildHead001
<1> HIDE DEF h
<1>2. ASSUME NEW n \in Number, ValidateRoutingNumber(n) = {}
      PROVE  ValidateParty44(BahParty(n)) = {} /\ PartyMemberId(BahParty(n)) = n
  <2>1. [scheme |-> None, member |-> n] \in [scheme : {None}, member : Number]
    OBVIOUS
  <2>2. [scheme |-> None, member |-> n] # None
    BY <2>1, MessageAssumption
  <2>3. /\ BahParty(n).organisation = FALSE /\ BahParty(n).institution # None
        /\ BahParty(n).institution.scheme = None /\ BahParty(n).institution.member = n
    BY <2>2 DEF BahParty
  <2>4. Len(n) = 9 /\ AllDigits(n) /\ AbaChecksumOk(n)
    BY <1>2 DEF ValidateRoutingNumber, Unless
  <2>5. ValidateConnectionPartyId(n) = {}
    BY <2>4 DEF ValidateConnectionPartyId, AllDigits, Unless
  <2>6. ValidateParty44(BahParty(n)) = {}
    BY <2>3, <2>5 DEF ValidateParty44, Unless
  <2>7. QED
    BY <2>3, <2>6 DEF PartyMemberId
<1>3. ValidateParty44(h.from) = {} /\ ValidateParty44(h.to) = {}
  BY <1>1, <1>2
<1>4. ValidateSender(h) = {}
  BY <1>1, <1>2 DEF ValidateSender, Unless
<1>5. ValidateMarketPractice(h.practice, h.name) = {}
  <2>1. h.practice # None
    BY <1>1, MessageAssumption
  <2>2. MarketPractices(name) = {"frb.fednow.01"}
    BY DEF MarketPractices
  <2>3. name \in Names
    BY DEF Names
  <2>4. IsFednowMarketPracticeId("frb.fednow.01")
    BY <2>2, <2>3 DEF IsFednowMarketPracticeId
  <2>5. QED
    BY <1>1, <2>1, <2>2, <2>4 DEF ValidateMarketPractice, Unless
<1>6. IsMessageDefinitionIdentifier(name) /\ IsFrsName(name)
  BY DEF IsFrsName, IsMessageDefinitionIdentifier, Names
<1>7. CheckMax35Text(id, "xsd.bizmsgidr.length") = {}
  BY DEF CheckMax35Text, Unless
<1>8. /\ Unless(h.xmlns = "head.001.001.02", "xsd.namespace") = {}
      /\ Unless(h.signature = None, "fednow.sgntr.outofband") = {}
      /\ Unless(h.service = None, "fednow.bizsvc.absent") = {}
      /\ Unless(h.related <= 1, "fednow.rltd.one") = {}
  BY <1>1 DEF Unless
<1>9. (IF ~IsMessageDefinitionIdentifier(h.name) THEN {"iso.msgdefidr.format"}
       ELSE Unless(IsFrsName(h.name), "fednow.msgdefidr.variant")) = {}
  BY <1>1, <1>6 DEF Unless
<1>10. (IF ~IsIsoDateTime(h.created) THEN {"xsd.credt.format"}
        ELSE Unless(IsZoned(h.created), "fednow.credt.timezone")) = {}
  BY <1>1 DEF Unless, IsIsoDateTime, IsZoned
<1>11. (IF h.copyDuplicate \notin {None, "CODU", "COPY", "DUPL"} THEN {"xsd.cpydplct.enum"}
        ELSE Unless(h.copyDuplicate \in {None, "DUPL"}, "fednow.cpydplct.dupl")) = {}
  BY <1>1 DEF Unless
<1>12. h.businessId = id
  BY <1>1
<1>13. ValidateHead001(h) = {}
  BY <1>3, <1>4, <1>5, <1>7, <1>8, <1>9, <1>10, <1>11, <1>12 DEF ValidateHead001
<1>14. QED
  BY <1>13 DEF h

\* The root of an envelope tells which way it goes.
LEMMA DirectionKnown ==
  ASSUME NEW direction \in {"incoming", "outgoing"}, NEW w, NEW h, NEW d
  PROVE  LET e == BuildEnvelope(direction, w, h, d)
         IN  /\ DirectionOf(e) = direction
             /\ e.root \in {Root[x] : x \in DOMAIN Root}
             /\ e.xmlns = NamespaceOf[direction] /\ e.wrapper = w
             /\ e.header = h /\ e.document = d
<1> DEFINE e == BuildEnvelope(direction, w, h, d)
<1>1. DOMAIN Root = {"incoming", "outgoing"} /\ Root["incoming"] # Root["outgoing"]
  BY DEF Root
<1>2. e.root = Root[direction]
  BY DEF BuildEnvelope
<1>3. DirectionOf(e) = direction
  BY <1>1, <1>2 DEF DirectionOf
<1>4. QED
  BY <1>1, <1>2, <1>3 DEF BuildEnvelope

\* FEDNOW_SERVICE_CONNECTION_PARTY is a valid routing number.
LEMMA ServiceNumber ==
  /\ FednowService \in Number /\ ValidateRoutingNumber(FednowService) = {}
  /\ FednowService # None
<1>1. FednowService \in Number
  BY DEF FednowService, Number
<1>2. /\ Len(FednowService) = 9 /\ DOMAIN FednowService = 1..9
      /\ FednowService[1] = 9 /\ FednowService[2] = 9 /\ FednowService[3] = 3
      /\ FednowService[4] = 0 /\ FednowService[5] = 0 /\ FednowService[6] = 0
      /\ FednowService[7] = 0 /\ FednowService[8] = 0 /\ FednowService[9] = 7
  BY DEF FednowService
<1>3. AllDigits(FednowService)
  BY <1>2 DEF AllDigits, Digit
<1>4. AbaChecksumOk(FednowService)
  BY <1>2 DEF AbaChecksumOk
<1>5. QED
  BY <1>1, <1>2, <1>3, <1>4, MessageAssumption DEF ValidateRoutingNumber, Unless

\* What every reader of an advice relies on.
IsAdvice(a) ==
  /\ a \in Pacs002Record /\ a.messageId.length \in 1..35
  /\ a.transactions[1].original \in OriginalRecord
  /\ a.transactions[1].original.messageId = MessageIdentification
  /\ ValidatePacs002Direction(a, "service") = ReasonFlaw
  /\ AdviceFromPacs002(a) \in Meant

\* What the simulator says of a rejection, by code, by its own, or nothing.
Explanations == {<< >>} \cup {Coded(c) : c \in Reason} \cup {Own(c) : c \in Reason}

\* The one rule an explanation can break.
FlawOf(reasons) == Unless(CodesFit(reasons), "xsd.stsrsn.length")

\* advice_xml and follow_up_advice_xml keep the profile about any accepted
\* submission, whatever the status, if a rejection is explained, but for the
\* length of the code that explains it.
LEMMA AboutIsValid ==
  ASSUME setup \in Setups, Accepted,
         NEW id \in AdviceIdText, id.length \in 1..35,
         NEW status \in FednowTxStatuses, NEW reasons \in Explanations,
         status = "RJCT" => reasons # << >>,
         NEW accepted \in {"utc", None}, NEW settled \in {"today", None}
  PROVE  LET a == About(Pacs008, id, status, reasons, accepted, settled)
         IN  /\ a \in Pacs002Record /\ a.messageId = id
             /\ a.transactions[1].original \in OriginalRecord
             /\ a.transactions[1].original.messageId = MessageIdentification
             /\ a.transactions[1].status = status /\ a.transactions[1].reasons = reasons
             /\ ValidatePacs002Direction(a, "service") = FlawOf(reasons)
<1> DEFINE a  == About(Pacs008, id, status, reasons, accepted, settled)
           tx == a.transactions[1]
           o  == tx.original
           d  == Pacs008.transactions[1]
<1>1. /\ setup.sender \in Number /\ Body \in BodyRecord /\ Body.creditorAgent \in Number
      /\ MessageIdentification \in MessageId /\ EndToEndIdentification \in Reference
      /\ Body.uetr \in UetrRecord \cup {None}
  BY TransferType DEF BodyRecord
<1>2. /\ Pacs008.messageId = MessageIdentification /\ Pacs008.created = "utc"
      /\ d.endToEndId = EndToEndIdentification /\ d.uetr = Body.uetr
      /\ d.instructing = Agent(setup.sender) /\ d.instructed = Agent(Body.creditorAgent)
  BY DEF Pacs008, BuildPacs008, CreationDateTime
<1>3. AgentRtn(d.instructing) = setup.sender /\ AgentRtn(d.instructed) = Body.creditorAgent
  BY <1>1, <1>2, AgentIssues DEF AgentRtn
<1>4. /\ a.xmlns = "pacs.002.001.10" /\ a.messageId = id /\ a.created = "utc"
      /\ a.transactions = <<tx>> /\ Len(a.transactions) = 1 /\ DOMAIN a.transactions = {1}
  BY DEF About, BuildPacs002
<1>5. tx = [original    |-> OriginalTransfer(MessageIdentification, "utc"),
            endToEndId  |-> EndToEndIdentification, uetr |-> Body.uetr,
            status      |-> status, reasons |-> reasons,
            accepted    |-> accepted, settled |-> settled,
            instructing |-> Agent(setup.sender), instructed |-> Agent(Body.creditorAgent)]
  BY <1>2, <1>3 DEF About, BuildPacs002
<1>6. o = [messageId |-> MessageIdentification, name |-> "pacs.008.001.08", created |-> "utc"]
  BY <1>5 DEF OriginalTransfer
<1>7. a = [xmlns |-> "pacs.002.001.10", messageId |-> id, created |-> "utc", transactions |-> <<tx>>]
  BY DEF About, BuildPacs002
<1> HIDE DEF a, tx, o, d
<1>8. "utc" \in MessageTime
  BY DEF MessageTime
<1>9. o \in OriginalRecord
  BY <1>1, <1>6, <1>8 DEF OriginalRecord
<1> DEFINE Explained == [code : Reason \cup {None}, proprietary : Reason \cup {None}]
<1>10. reasons \in Seq(Explained)
  <2>1. CASE reasons = << >>
    BY <2>1
  <2>2. \A c \in Reason : /\ [code |-> c, proprietary |-> None] \in Explained
                          /\ [code |-> None, proprietary |-> c] \in Explained
    OBVIOUS
  <2> HIDE DEF Explained
  <2>3. ASSUME NEW r \in Explained, reasons = <<r>>
        PROVE  reasons \in Seq(Explained)
    BY <2>3
  <2>4. QED
    BY <2>1, <2>2, <2>3 DEF Explanations, Coded, Own
<1>11. a \in Pacs002Record
  <2>1. Agent(setup.sender) \in AgentRecord /\ Agent(Body.creditorAgent) \in AgentRecord
    BY <1>1 DEF Agent, AgentRecord
  <2>2. OriginalTransfer(MessageIdentification, "utc") \in OriginalRecord
    BY <1>6, <1>9 DEF OriginalTransfer
  <2>3. accepted \in MessageTime \cup {None}
    BY <1>8
  <2>4. tx \in [original : OriginalRecord, endToEndId : Reference, uetr : UetrRecord \cup {None},
                status : FednowTxStatuses,
                reasons : Seq(Explained), accepted : MessageTime \cup {None}, settled : {"today", None},
                instructing : AgentRecord, instructed : AgentRecord]
    BY <1>1, <1>5, <1>10, <2>1, <2>2, <2>3
  <2>5. QED
    BY <1>7, <1>8, <2>4 DEF Pacs002Record
<1>12. /\ tx.endToEndId = EndToEndIdentification /\ tx.uetr = Body.uetr
       /\ tx.status = status /\ tx.reasons = reasons /\ tx.accepted = accepted
       /\ tx.settled = settled /\ tx.original = o
       /\ tx.instructing = Agent(setup.sender) /\ tx.instructed = Agent(Body.creditorAgent)
  BY <1>5 DEF o
<1>13. ValidateOriginalGroupInformation(o) = {}
  <2>1. o # None /\ "utc" # None
    BY <1>8, <1>9, MessageAssumption
  <2>2. CheckMax35Text(MessageIdentification, "xsd.orgnlmsgid.length") = {}
    BY AcceptedParts DEF CheckMax35Text, Unless
  <2>3. Unless(IsFrsName("pacs.008.001.08"), "fednow.orgnlmsgnmid.format") = {}
    BY DEF Unless, IsFrsName, IsMessageDefinitionIdentifier, Names
  <2>4. Unless(IsIsoDateTime("utc"), "xsd.orgnlcredttm.format") = {}
    BY DEF Unless, IsIsoDateTime
  <2>5. o.messageId = MessageIdentification /\ o.name = "pacs.008.001.08" /\ o.created = "utc"
    BY <1>6
  <2>6. QED
    BY <2>1, <2>2, <2>3, <2>4, <2>5 DEF ValidateOriginalGroupInformation
<1>14. /\ RequireAgent(tx.instructing, "fednow.instgagt.required") = {}
       /\ RequireAgent(tx.instructed, "fednow.instdagt.required") = {}
  BY <1>1, <1>12, AgentIssues, AcceptedParts
<1>15. ValidateStatusTransaction(tx) = FlawOf(reasons)
  <2>1. (IF tx.endToEndId = None THEN {}
         ELSE CheckMax35Text(tx.endToEndId, "xsd.orgnlendtoendid.length")) = {}
    BY <1>12, AcceptedParts DEF CheckMax35Text, Unless
  <2>2. ValidateUetr(tx.uetr) = {}
    BY <1>12, AcceptedParts
  <2>3. (CASE tx.status = None            -> {"fednow.txsts.required"}
           [] tx.status \in FednowTxStatuses -> {}
           [] tx.status = "ACSP"          -> {"fednow.txsts.known"}
           [] OTHER                       -> {"xsd.txsts.length"}) = {}
    <3>1. status # None
      BY MessageAssumption
    <3>2. status # "ACSP"
      BY DEF FednowTxStatuses
    <3>3. QED
      BY <1>12, <3>1, <3>2
  <2>4. tx.status = "RJCT" => \E i \in DOMAIN tx.reasons : HasReason(tx.reasons[i])
    <3>1. CASE reasons = << >>
      BY <1>12, <3>1
    <3>2. ASSUME NEW c \in Reason, reasons = Coded(c) \/ reasons = Own(c)
          PROVE  \E i \in DOMAIN reasons : HasReason(reasons[i])
      <4>1. c # None
        BY MessageAssumption
      <4>2. 1 \in DOMAIN reasons /\ HasReason(reasons[1])
        BY <3>2, <4>1 DEF Coded, Own, HasReason
      <4>3. QED
        BY <4>2
    <3>3. QED
      BY <1>12, <3>1, <3>2 DEF Explanations
  <2>5. Unless(tx.accepted = None \/ IsIsoDateTime(tx.accepted), "xsd.accptncdttm.format") = {}
    BY <1>12 DEF Unless, IsIsoDateTime
  <2>6. Unless(CodesFit(tx.reasons), "xsd.stsrsn.length") = FlawOf(reasons)
    BY <1>12 DEF FlawOf
  <2>7. QED
    <3> DEFINE explained == tx.status = "RJCT" => \E i \in DOMAIN tx.reasons : HasReason(tx.reasons[i])
    <3>1. Unless(explained, "fednow.rjct.reason") = {}
      BY <2>4 DEF Unless
    <3>2. ValidateStatusTransaction(tx) =
            UNION {IF tx.endToEndId = None THEN {}
                   ELSE CheckMax35Text(tx.endToEndId, "xsd.orgnlendtoendid.length"),
                   ValidateUetr(tx.uetr),
                   CASE tx.status = None            -> {"fednow.txsts.required"}
                     [] tx.status \in FednowTxStatuses -> {}
                     [] tx.status = "ACSP"          -> {"fednow.txsts.known"}
                     [] OTHER                       -> {"xsd.txsts.length"},
                   Unless(explained, "fednow.rjct.reason"),
                   Unless(CodesFit(tx.reasons), "xsd.stsrsn.length"),
                   Unless(tx.accepted = None \/ IsIsoDateTime(tx.accepted),
                          "xsd.accptncdttm.format")}
      BY Zenon DEF ValidateStatusTransaction
    <3> HIDE DEF explained
    <3>3. QED
      BY <2>1, <2>2, <2>3, <2>5, <2>6, <3>1, <3>2
<1>16. ValidatePacs002(a) = FlawOf(reasons)
  <2>1. UNION {ValidateStatusTransaction(a.transactions[i]) : i \in DOMAIN a.transactions}
          = ValidateStatusTransaction(tx)
    BY <1>4 DEF tx
  <2>2. a.xmlns = "pacs.002.001.10" /\ IsIsoDateTime(a.created)
    BY <1>4 DEF IsIsoDateTime
  <2>3. CheckMax35Text(a.messageId, "xsd.msgid.length") = {}
    BY <1>4 DEF CheckMax35Text, Unless
  <2>4. QED
    BY <1>15, <2>1, <2>2, <2>3 DEF ValidatePacs002, Unless
<1>17. ValidatePacs002Direction(a, "service") = FlawOf(reasons)
  <2> DEFINE found(x) == UNION {
        ValidateOriginalGroupInformation(x.original),
        RequireAgent(x.instructing, "fednow.instgagt.required"),
        RequireAgent(x.instructed, "fednow.instdagt.required"),
        IF "service" = "participant" THEN ValidateParticipantStatus(x) ELSE {}}
  <2>1. found(tx) = {}
    BY <1>12, <1>13, <1>14
  <2>2. UNION {found(a.transactions[i]) : i \in DOMAIN a.transactions} = {}
    <3> HIDE DEF found
    <3>1. QED
      BY <1>4, <2>1 DEF tx
  <2>3. /\ Unless("service" = "participant" => IsFednowMessageId(a.messageId), "fednow.msgid.format") = {}
        /\ Unless(Len(a.transactions) = 1, "fednow.txinfandsts.one") = {}
    BY <1>4 DEF Unless
  <2>4. QED
    BY <1>16, <2>2, <2>3 DEF ValidatePacs002Direction
<1>18. QED
  BY <1>4, <1>6, <1>9, <1>11, <1>12, <1>17 DEF a, tx, o

\* The scenario of a submission, configured or chosen by its cents, is one of
\* those the simulator plays.
LEMMA ScenarioType ==
  ASSUME setup \in Setups
  PROVE  LET x == Decide(Pacs008)
         IN  /\ x.kind \in ScenarioKind
             /\ x.kind \in {"Reject", "RejectService"} => x.detail \in Reason
             /\ x.kind = "AcwpThen" => x.detail \in FollowUp
<1> DEFINE tx == Pacs008.transactions[1]
           n  == tx.creditorAgent.member
<1>1. CASE n \in DOMAIN setup.scenarios
  <2>1. Decide(Pacs008) = setup.scenarios[n]
    BY <1>1 DEF Decide
  <2>2. QED
    BY <1>1, <2>1, ExchangeAssumption
<1>2. CASE n \notin DOMAIN setup.scenarios
  <2>1. Decide(Pacs008) \in
          {Scenario("Reject", "AC04"), Scenario("AcceptWithoutPosting", None),
           Scenario("Timeout", None), Scenario("Delay", None), Scenario("RejectService", "E990"),
           Scenario("AcwpThen", "ACCC"), Scenario("Settle", None)}
    BY <1>2 DEF Decide
  <2>2. QED
    BY <2>1, ExchangeAssumption, MessageAssumption DEF Scenario, ScenarioKind, FollowUp
<1>3. QED
  BY <1>1, <1>2

\* The ids of advices fit 35 characters however long the message id is.
LEMMA AdviceIdsFit ==
  ASSUME setup \in Setups
  PROVE  /\ AdviceId(MessageIdentification) \in AdviceIdText
         /\ AdviceId(MessageIdentification).length \in 1..35
         /\ FollowUpAdviceId(MessageIdentification) \in AdviceIdText
         /\ FollowUpAdviceId(MessageIdentification).length \in 1..35
<1> DEFINE id == MessageIdentification
<1>1. id \in MessageId
  BY TransferType
<1> HIDE DEF id
<1>2. id.name \in MessageIdName /\ id.length \in Nat /\ id.alnum \in BOOLEAN
  BY <1>1 DEF MessageId, TextNamed
<1>3. /\ 3 + SmallerOf(id.length, 32) \in Nat /\ 3 + SmallerOf(id.length, 32) \in 1..35
      /\ 4 + SmallerOf(id.length, 31) \in Nat /\ 4 + SmallerOf(id.length, 31) \in 1..35
  BY <1>2 DEF SmallerOf
<1>4. /\ AdviceId(id) \in AdviceIdText /\ AdviceId(id).length \in 1..35
      /\ FollowUpAdviceId(id) \in AdviceIdText /\ FollowUpAdviceId(id).length \in 1..35
  BY <1>2, <1>3 DEF AdviceId, FollowUpAdviceId, AdviceIdText, TextNamed, Text
<1>5. QED
  BY <1>4 DEF id

\* advice_from_pacs002 reads back the status and the reason an advice was
\* written with, whether the reason is a code or proprietary.
LEMMA ReportReadsBack ==
  ASSUME NEW a, NEW c \in Reason, a.transactions[1].status \in FednowTxStatuses
  PROVE  LET tx == a.transactions[1]
         IN  /\ tx.reasons = << >> =>
                  AdviceFromPacs002(a) = [status |-> tx.status, reason |-> None]
             /\ tx.reasons \in {Coded(c), Own(c)} =>
                  AdviceFromPacs002(a) = [status |-> tx.status, reason |-> c]
<1> DEFINE tx == a.transactions[1]
<1>1. tx.status \in Aggregate!AdviceStatus
  BY DEF FednowTxStatuses, Aggregate!AdviceStatus
<1>2. c # None
  BY MessageAssumption
<1>3. ASSUME tx.reasons = << >>
      PROVE  AdviceFromPacs002(a) = [status |-> tx.status, reason |-> None]
  BY <1>1, <1>3 DEF AdviceFromPacs002
<1>4. ASSUME tx.reasons = Coded(c)
      PROVE  AdviceFromPacs002(a) = [status |-> tx.status, reason |-> c]
  <2>1. tx.reasons # << >> /\ tx.reasons[1].code = c
    BY <1>4 DEF Coded
  <2>2. QED
    BY <1>1, <1>2, <2>1 DEF AdviceFromPacs002
<1>5. ASSUME tx.reasons = Own(c)
      PROVE  AdviceFromPacs002(a) = [status |-> tx.status, reason |-> c]
  <2>1. tx.reasons # << >> /\ tx.reasons[1].code = None /\ tx.reasons[1].proprietary = c
    BY <1>5 DEF Own
  <2>2. QED
    BY <1>1, <2>1 DEF AdviceFromPacs002
<1>6. QED
  BY <1>3, <1>4, <1>5

\* Only a code can be too long: not what is not said, nor said in words.
LEMMA NoExplanation == FlawOf(<< >>) = {}
BY DEF FlawOf, Unless, CodesFit

\* A code is as good as its length.
LEMMA FlawOfCode ==
  ASSUME NEW c \in Reason
  PROVE  FlawOf(Coded(c)) = Unless(c \in ReasonCode, "xsd.stsrsn.length")
<1> DEFINE r == Coded(c)
<1>1. DOMAIN r = {1} /\ r[1].code = c /\ c # None
  BY MessageAssumption DEF Coded
<1> HIDE DEF r
<1>2. CodesFit(r) <=> c \in ReasonCode
  BY <1>1 DEF CodesFit
<1>3. QED
  BY <1>2 DEF FlawOf, Unless, r

\* A proprietary reason has no code.
LEMMA FlawOfOwn ==
  ASSUME NEW c \in Reason
  PROVE  FlawOf(Own(c)) = {}
<1> DEFINE r == Own(c)
<1>1. DOMAIN r = {1} /\ r[1].code = None
  BY DEF Own
<1> HIDE DEF r
<1>2. CodesFit(r)
  BY <1>1 DEF CodesFit
<1>3. QED
  BY <1>2 DEF FlawOf, Unless, r

\* The simulator's advice about an accepted submission is one its readers can
\* use, and says what the scenario means.
LEMMA AdviceIsGood ==
  ASSUME setup \in Setups, Accepted
  PROVE  LET a == AdviceXml(Pacs008, Decide(Pacs008))
         IN  IsAdvice(a) /\ a.messageId = AdviceId(MessageIdentification)
<1> DEFINE x  == Decide(Pacs008)
           id == AdviceId(MessageIdentification)
           a  == AdviceXml(Pacs008, x)
<1>1. id \in AdviceIdText /\ id.length \in 1..35 /\ AdviceId(Pacs008.messageId) = id
  BY AdviceIdsFit DEF Pacs008, BuildPacs008
<1>2. /\ x.kind \in ScenarioKind
      /\ x.kind \in {"Reject", "RejectService"} => x.detail \in Reason
  BY ScenarioType
<1>3. /\ << >> \in Explanations
      /\ \A c \in Reason : Coded(c) \in Explanations /\ Own(c) \in Explanations
      /\ \A c \in Reason : Coded(c) # << >> /\ Own(c) # << >>
  BY DEF Explanations, Coded, Own
<1>4. {"ACSC", "ACWP", "RJCT"} \subseteq FednowTxStatuses
  BY DEF FednowTxStatuses
<1>5. PICK code \in Reason : x.kind \in {"Reject", "RejectService"} => x.detail = code
  BY <1>2, ExchangeAssumption, MessageAssumption
<1> HIDE DEF id, x
<1> DEFINE Good(b) ==
      /\ b \in Pacs002Record /\ b.messageId = id
      /\ b.transactions[1].original \in OriginalRecord
      /\ b.transactions[1].original.messageId = MessageIdentification
      /\ ValidatePacs002Direction(b, "service") = ReasonFlaw
<1>11. ReasonFlaw = Unless(x.kind = "Reject" => x.detail \in ReasonCode, "xsd.stsrsn.length")
  BY DEF ReasonFlaw, x
<1>6. CASE x.kind \in {"Settle", "Timeout", "Delay"}
  <2>1. a = About(Pacs008, id, "ACSC", << >>, "utc", "today")
    BY <1>1, <1>6 DEF AdviceXml
  <2>2. Good(a) /\ a.transactions[1].status = "ACSC" /\ a.transactions[1].reasons = << >>
    BY <1>1, <1>3, <1>4, <1>6, <1>11, <2>1, NoExplanation, AboutIsValid DEF Unless
  <2>3. AdviceFromPacs002(a) = [status |-> "ACSC", reason |-> None]
    BY <1>4, <1>5, <2>2, ReportReadsBack
  <2>4. Meant = {[status |-> "ACSC", reason |-> None]}
    BY <1>6 DEF Meant, x
  <2>5. QED
    BY <1>1, <2>2, <2>3, <2>4 DEF IsAdvice, id, x
<1>7. CASE x.kind \in {"AcceptWithoutPosting", "AcwpThen"}
  <2>1. a = About(Pacs008, id, "ACWP", << >>, "utc", None)
    BY <1>1, <1>7 DEF AdviceXml
  <2>2. Good(a) /\ a.transactions[1].status = "ACWP" /\ a.transactions[1].reasons = << >>
    BY <1>1, <1>3, <1>4, <1>7, <1>11, <2>1, NoExplanation, AboutIsValid DEF Unless
  <2>3. AdviceFromPacs002(a) = [status |-> "ACWP", reason |-> None]
    BY <1>4, <1>5, <2>2, ReportReadsBack
  <2>4. [status |-> "ACWP", reason |-> None] \in Meant
    BY <1>7 DEF Meant, x
  <2>5. QED
    BY <1>1, <2>2, <2>3, <2>4 DEF IsAdvice, id, x
<1>8. CASE x.kind = "Reject"
  <2>1. a = About(Pacs008, id, "RJCT", Coded(code), None, None)
    BY <1>1, <1>5, <1>8 DEF AdviceXml
  <2>2. Good(a) /\ a.transactions[1].status = "RJCT" /\ a.transactions[1].reasons = Coded(code)
    BY <1>1, <1>3, <1>4, <1>5, <1>8, <1>11, <2>1, FlawOfCode, AboutIsValid DEF Unless
  <2>3. AdviceFromPacs002(a) = [status |-> "RJCT", reason |-> code]
    BY <1>4, <2>2, ReportReadsBack
  <2>4. Meant = {[status |-> "RJCT", reason |-> code]}
    BY <1>5, <1>8 DEF Meant, x
  <2>5. QED
    BY <1>1, <2>2, <2>3, <2>4 DEF IsAdvice, id, x
<1>9. CASE x.kind = "RejectService"
  <2>1. a = About(Pacs008, id, "RJCT", Own(code), None, None)
    BY <1>1, <1>5, <1>9 DEF AdviceXml
  <2>2. Good(a) /\ a.transactions[1].status = "RJCT" /\ a.transactions[1].reasons = Own(code)
    BY <1>1, <1>3, <1>4, <1>9, <1>11, <2>1, FlawOfOwn, AboutIsValid DEF Unless
  <2>3. AdviceFromPacs002(a) = [status |-> "RJCT", reason |-> code]
    BY <1>4, <2>2, ReportReadsBack
  <2>4. Meant = {[status |-> "RJCT", reason |-> code]}
    BY <1>5, <1>9 DEF Meant, x
  <2>5. QED
    BY <1>1, <2>2, <2>3, <2>4 DEF IsAdvice, id, x
<1>10. QED
  BY <1>2, <1>6, <1>7, <1>8, <1>9 DEF ScenarioKind

\* So is the advice that follows an ACWP.
LEMMA FollowUpIsGood ==
  ASSUME setup \in Setups, Accepted, Decide(Pacs008).kind = "AcwpThen"
  PROVE  LET a == FollowUpAdviceXml(Pacs008, Decide(Pacs008).detail)
         IN  IsAdvice(a) /\ a.messageId = FollowUpAdviceId(MessageIdentification)
<1> DEFINE status  == Decide(Pacs008).detail
           id      == FollowUpAdviceId(MessageIdentification)
           reasons == IF status = "RJCT" THEN Coded("AC04") ELSE << >>
           a       == FollowUpAdviceXml(Pacs008, status)
<1>1. id \in AdviceIdText /\ id.length \in 1..35 /\ FollowUpAdviceId(Pacs008.messageId) = id
  BY AdviceIdsFit DEF Pacs008, BuildPacs008
<1>2. status \in FollowUp /\ status \in FednowTxStatuses
  BY ScenarioType DEF FollowUp, FednowTxStatuses
<1>3. "AC04" \in ReasonCode /\ "AC04" \in Reason
  BY ExchangeAssumption, MessageAssumption
<1>4. reasons \in Explanations /\ (status = "RJCT" => reasons # << >>)
  BY <1>3 DEF Explanations, Coded
<1>5. a = About(Pacs008, id, status, reasons, None, None)
  BY <1>1 DEF FollowUpAdviceXml
<1>6. Meant = {[status |-> "ACWP", reason |-> None],
               IF status = "RJCT" THEN [status |-> "RJCT", reason |-> "AC04"]
               ELSE [status |-> status, reason |-> None]}
  BY DEF Meant
<1>7. status = "RJCT" => reasons = Coded("AC04")
  OBVIOUS
<1>8. status # "RJCT" => reasons = << >>
  OBVIOUS
<1> HIDE DEF status, id, reasons, a
<1>9. /\ a \in Pacs002Record /\ a.messageId = id
      /\ a.transactions[1].original \in OriginalRecord
      /\ a.transactions[1].original.messageId = MessageIdentification
      /\ a.transactions[1].status = status /\ a.transactions[1].reasons = reasons
      /\ ValidatePacs002Direction(a, "service") = FlawOf(reasons)
  BY <1>1, <1>2, <1>4, <1>5, AboutIsValid
<1>10. AdviceFromPacs002(a) \in Meant
  <2>1. CASE status = "RJCT"
    <3>1. AdviceFromPacs002(a) = [status |-> status, reason |-> "AC04"]
      BY <1>2, <1>3, <1>7, <1>9, <2>1, ReportReadsBack
    <3>2. QED
      BY <1>6, <2>1, <3>1
  <2>2. CASE status # "RJCT"
    <3>1. AdviceFromPacs002(a) = [status |-> status, reason |-> None]
      BY <1>2, <1>3, <1>8, <1>9, <2>2, ReportReadsBack
    <3>2. QED
      BY <1>6, <2>2, <3>1
  <2>3. QED
    BY <2>1, <2>2
<1>11. IsAdvice(a)
  <2>1. FlawOf(reasons) = {}
    BY <1>3, <1>7, <1>8, NoExplanation, FlawOfCode DEF Unless
  <2>2. ReasonFlaw = {}
    BY DEF ReasonFlaw, Unless
  <2>3. QED
    BY <1>1, <1>9, <1>10, <2>1, <2>2 DEF IsAdvice
<1>12. QED
  BY <1>9, <1>11 DEF a, id, status

-----------------------------------------------------------------------------
(* What is on the wire about an accepted submission.                       *)

Advices == {a \in Pacs002Record : IsAdvice(a)}

Mail == {WrapAdvice(a, a.messageId) : a \in Advices}

\* The gateway's two messages.
Transfer == OnTheWire("FedNowCustomerCreditTransfer", Pacs008)
Asking(n) == OnTheWire("FedNowPaymentStatusRequest", Pacs028(n))

Traffic == {Transfer} \cup {Asking(n) : n \in 1..MaxQueries}

\* A query's number has ten digits at most, however many are asked.
LEMMA AtMostTenDigits ==
  ASSUME NEW n \in Nat
  PROVE  DecimalDigits(n) \in 1..10
<1> DEFINE reached(k) == n >= 10^k
           S == {k \in 1..9 : reached(k)}
<1>1. S \subseteq 1..9
  <2> HIDE DEF reached
  <2>1. QED
    OBVIOUS
<1> HIDE DEF S
<1>2. IsFiniteSet(1..9) /\ Cardinality(1..9) = 9
  <2> DEFINE first == 1
             last  == 9
  <2>1. first \in Int /\ last \in Int /\ ~(first > last) /\ last - first + 1 = 9
    OBVIOUS
  <2> HIDE DEF first, last
  <2>2. IsFiniteSet(first..last) /\ Cardinality(first..last) = last - first + 1
    BY <2>1, FS_Interval
  <2>3. QED
    BY <2>1, <2>2 DEF first, last
<1>3. IsFiniteSet(S) /\ Cardinality(S) <= 9
  BY <1>1, <1>2, FS_Subset
<1>4. Cardinality(S) \in Nat
  BY <1>3, FS_CardinalityType
<1>5. DecimalDigits(n) = 1 + Cardinality(S)
  BY DEF DecimalDigits, S
<1>6. QED
  BY <1>3, <1>4, <1>5

\* A query about an accepted submission keeps the profile, whenever it is asked.
LEMMA QueryIsValid ==
  ASSUME setup \in Setups, Accepted, NEW n \in Nat
  PROVE  LET d == Pacs028(n)
         IN  /\ ValidatePacs028(d) = {}
             /\ d.xmlns = "pacs.028.001.03" /\ d.created = "utc"
             /\ d.messageId.length \in 1..35
             /\ d.transactions[1].original.messageId = MessageIdentification
<1> DEFINE d  == Pacs028(n)
           tx == d.transactions[1]
           o  == tx.original
           id == d.messageId
<1>1. /\ d.xmlns = "pacs.028.001.03" /\ d.created = "utc" /\ Len(d.transactions) = 1
      /\ DOMAIN d.transactions = {1}
  BY DEF Pacs028, BuildPacs028, CreationDateTime
<1>2. /\ o = [messageId |-> MessageIdentification, name |-> "pacs.008.001.08", created |-> "utc"]
      /\ tx.uetr = Body.uetr /\ tx.instructing = Agent(setup.sender)
      /\ tx.instructed = Agent(FednowService)
  BY DEF Pacs028, BuildPacs028, OriginalTransfer, CreationDateTime
<1>3. /\ setup.sender \in Number /\ Len(setup.sender) = 9 /\ AllDigits(setup.sender)
      /\ MessageIdentification \in MessageId
  BY TransferType, AcceptedParts, BanksAreAccepted
<1>4. /\ id.length = 8 + Len(setup.sender) + (1 + DecimalDigits(n)) /\ id.dated = TRUE
      /\ id.alnum = (TRUE /\ \A i \in DOMAIN setup.sender : setup.sender[i] # OtherChar)
  BY DEF Pacs028, BuildPacs028, FednowMessageId, QueryReference, Text
<1> HIDE DEF d, tx, o, id
<1>5. id.length \in 19..28 /\ id.alnum
  <2>1. \A c \in Digit : c # OtherChar
    BY DEF Digit, OtherChar
  <2>2. \A i \in DOMAIN setup.sender : setup.sender[i] # OtherChar
    BY <1>3, <2>1 DEF AllDigits
  <2>3. id.alnum
    BY <1>4, <2>2
  <2>4. DecimalDigits(n) \in 1..10
    BY AtMostTenDigits
  <2>5. QED
    BY <1>3, <1>4, <2>3, <2>4
<1>6. IsFednowMessageId(id) /\ id.length \in 1..35
  BY <1>4, <1>5 DEF IsFednowMessageId
<1>7. ValidateOriginalGroupInformation(o) = {}
  <2>1. "utc" \in MessageTime
    BY DEF MessageTime
  <2>2. o \in OriginalRecord
    BY <1>2, <1>3, <2>1 DEF OriginalRecord
  <2>3. o # None /\ "utc" # None
    BY <2>1, <2>2, MessageAssumption
  <2>4. CheckMax35Text(MessageIdentification, "xsd.orgnlmsgid.length") = {}
    BY AcceptedParts DEF CheckMax35Text, Unless
  <2>5. Unless(IsFrsName("pacs.008.001.08"), "fednow.orgnlmsgnmid.format") = {}
    BY DEF Unless, IsFrsName, IsMessageDefinitionIdentifier, Names
  <2>6. Unless(IsIsoDateTime("utc"), "xsd.orgnlcredttm.format") = {}
    BY DEF Unless, IsIsoDateTime
  <2>7. o.messageId = MessageIdentification /\ o.name = "pacs.008.001.08" /\ o.created = "utc"
    BY <1>2
  <2>8. QED
    BY <2>3, <2>4, <2>5, <2>6, <2>7 DEF ValidateOriginalGroupInformation
<1>8. /\ RequireAgent(tx.instructing, "fednow.instgagt.required") = {}
      /\ RequireAgent(tx.instructed, "fednow.instdagt.required") = {}
      /\ ValidateUetr(tx.uetr) = {}
  BY <1>2, <1>3, AgentIssues, AcceptedParts, ServiceNumber
<1> DEFINE found(x) == UNION {
        ValidateOriginalGroupInformation(x.original),
        ValidateUetr(x.uetr),
        RequireAgent(x.instructing, "fednow.instgagt.required"),
        RequireAgent(x.instructed, "fednow.instdagt.required")}
<1>9. found(tx) = {}
  BY <1>7, <1>8 DEF o
<1>10. UNION {found(d.transactions[i]) : i \in DOMAIN d.transactions} = {}
  <2> HIDE DEF found
  <2>1. QED
    BY <1>1, <1>9 DEF tx
<1>11. IsIsoDateTime(d.created) /\ CheckMax35Text(id, "xsd.msgid.length") = {}
  BY <1>1, <1>6 DEF IsIsoDateTime, CheckMax35Text, Unless
<1>12. ValidatePacs028(d) = {}
  BY <1>1, <1>6, <1>10, <1>11 DEF ValidatePacs028, Unless, id
<1>13. o.messageId = MessageIdentification
  BY <1>2
<1>14. QED
  BY <1>1, <1>6, <1>12, <1>13 DEF d, tx, o, id

\* In its envelope a valid document of the gateway's stays valid: the header
\* takes its number from the settings, its id and time from the document.
LEMMA WrappedIsValid ==
  ASSUME setup \in Setups, Accepted, NEW d, NEW wrapper,
         \/ wrapper = "FedNowCustomerCreditTransfer" /\ d.xmlns = "pacs.008.001.08"
              /\ ValidatePacs008(d) = {}
         \/ wrapper = "FedNowPaymentStatusRequest" /\ d.xmlns = "pacs.028.001.03"
              /\ ValidatePacs028(d) = {},
         d.created = "utc", d.messageId.length \in 1..35
  PROVE  Parses(Wrap(wrapper, d)) /\ ValidateEnvelope(Wrap(wrapper, d)) = {}
<1> DEFINE h == BuildHead001(setup.sender, FednowService, d.messageId, d.xmlns, d.created)
           e == Wrap(wrapper, d)
<1>1. e = BuildEnvelope("incoming", wrapper, h, d)
  BY DEF Wrap
<1>2. /\ DirectionOf(e) = "incoming" /\ e.root \in {Root[x] : x \in DOMAIN Root}
      /\ e.xmlns = NamespaceOf["incoming"] /\ e.wrapper = wrapper /\ e.header = h /\ e.document = d
  BY <1>1, DirectionKnown
<1>3. h.name = d.xmlns
  BY DEF BuildHead001
<1>4. ValidateHead001(h) = {}
  <2>1. setup.sender \in Number /\ ValidateRoutingNumber(setup.sender) = {}
    BY TransferType, AcceptedParts
  <2>2. d.xmlns \in {"pacs.008.001.08", "pacs.028.001.03", "pacs.002.001.10"}
    OBVIOUS
  <2>3. QED
    BY <2>1, <2>2, HeaderIsValid, ServiceNumber
<1> HIDE DEF h, e
<1>5. Parses(e)
  BY <1>2 DEF Parses, Names
<1>6. wrapper \in DOMAIN Wrappers /\ Wrappers[wrapper] = d.xmlns
  BY DEF Wrappers
<1>7. (CASE e.document.xmlns = "pacs.008.001.08" -> ValidatePacs008(e.document)
         [] e.document.xmlns = "pacs.028.001.03" -> ValidatePacs028(e.document)
         [] e.document.xmlns = "pacs.002.001.10" ->
              ValidatePacs002Direction(e.document,
                IF DirectionOf(e) = "incoming" THEN "participant" ELSE "service")) = {}
  BY <1>2
<1>8. (IF e.wrapper \notin DOMAIN Wrappers THEN {"fednow.env.wrapper.unknown"}
       ELSE Unless(Wrappers[e.wrapper] = e.document.xmlns, "fednow.env.wrapper.match")) = {}
  BY <1>2, <1>6 DEF Unless
<1>9. /\ e.xmlns = NamespaceOf[DirectionOf(e)] /\ e.header.name = e.document.xmlns
      /\ DirectionOf(e) = "outgoing" => PartyMemberId(e.header.from) = FednowService
      /\ ValidateHead001(e.header) = {}
  BY <1>2, <1>3, <1>4
<1>10. ValidateEnvelope(e) = {}
  BY <1>7, <1>8, <1>9 DEF ValidateEnvelope, Unless
<1>11. QED
  BY <1>5, <1>10 DEF e

\* An advice in its envelope is one the gateway can read, and valid.
LEMMA MailIsGood ==
  ASSUME setup \in Setups, Accepted, NEW m \in Mail
  PROVE  Parses(m) /\ ValidateEnvelope(m) = ReasonFlaw /\ m.document \in Advices
<1>1. PICK a \in Advices : m = WrapAdvice(a, a.messageId)
  BY DEF Mail
<1> DEFINE id == [a.messageId EXCEPT !.length = SmallerOf(@, 35)]
           h  == BuildHead001(FednowService, setup.sender, id, "pacs.002.001.10", "utc")
<1>2. /\ a \in Pacs002Record /\ a.messageId.length \in 1..35
      /\ ValidatePacs002Direction(a, "service") = ReasonFlaw
  BY DEF Advices, IsAdvice
<1>3. a.xmlns = "pacs.002.001.10" /\ a.messageId \in AdviceIdText
  BY <1>2 DEF Pacs002Record
<1>4. id.length \in 1..35
  <2>1. id.length = SmallerOf(a.messageId.length, 35)
    BY <1>3 DEF AdviceIdText, TextNamed
  <2>2. QED
    BY <1>2, <2>1 DEF SmallerOf
<1>5. m = BuildEnvelope("outgoing", "FedNowPaymentStatus", h, a)
  BY <1>1 DEF WrapAdvice
<1>6. /\ h.name = "pacs.002.001.10" /\ h.from = BahParty(FednowService)
  BY DEF BuildHead001
<1>7. ValidateHead001(h) = {}
  <2>1. setup.sender \in Number /\ ValidateRoutingNumber(setup.sender) = {}
    BY TransferType, AcceptedParts
  <2>2. QED
    BY <1>4, <2>1, HeaderIsValid, ServiceNumber
<1>8. PartyMemberId(h.from) = FednowService
  <2>1. [scheme |-> None, member |-> FednowService] \in [scheme : {None}, member : Number]
    BY ServiceNumber
  <2>2. [scheme |-> None, member |-> FednowService] # None
    BY <2>1, MessageAssumption
  <2>3. QED
    BY <1>6, <2>2 DEF PartyMemberId, BahParty
<1> HIDE DEF h, id
<1>9. /\ DirectionOf(m) = "outgoing" /\ m.root \in {Root[x] : x \in DOMAIN Root}
      /\ m.xmlns = NamespaceOf["outgoing"] /\ m.wrapper = "FedNowPaymentStatus"
      /\ m.header = h /\ m.document = a
  BY <1>5, DirectionKnown
<1>10. Parses(m)
  BY <1>3, <1>9 DEF Parses, Names
<1>11. "FedNowPaymentStatus" \in DOMAIN Wrappers
       /\ Wrappers["FedNowPaymentStatus"] = "pacs.002.001.10"
  BY DEF Wrappers
<1>12. (CASE m.document.xmlns = "pacs.008.001.08" -> ValidatePacs008(m.document)
          [] m.document.xmlns = "pacs.028.001.03" -> ValidatePacs028(m.document)
          [] m.document.xmlns = "pacs.002.001.10" ->
               ValidatePacs002Direction(m.document,
                 IF DirectionOf(m) = "incoming" THEN "participant" ELSE "service")) = ReasonFlaw
  BY <1>2, <1>3, <1>9
<1>13. (IF m.wrapper \notin DOMAIN Wrappers THEN {"fednow.env.wrapper.unknown"}
        ELSE Unless(Wrappers[m.wrapper] = m.document.xmlns, "fednow.env.wrapper.match")) = {}
  BY <1>3, <1>9, <1>11 DEF Unless
<1>14. /\ m.xmlns = NamespaceOf[DirectionOf(m)] /\ m.header.name = m.document.xmlns
       /\ DirectionOf(m) = "outgoing" => PartyMemberId(m.header.from) = FednowService
       /\ ValidateHead001(m.header) = {}
  BY <1>3, <1>6, <1>7, <1>8, <1>9
<1>15. ValidateEnvelope(m) = ReasonFlaw
  BY <1>12, <1>13, <1>14 DEF ValidateEnvelope, Unless
<1>16. QED
  BY <1>9, <1>10, <1>15

\* Both messages of the gateway keep the profile on the wire it uses.
LEMMA TrafficIsGood ==
  ASSUME setup \in Setups, Accepted, NEW m \in Traffic
  PROVE  KeepsTheProfile(m)
<1>1. /\ Pacs008.xmlns = "pacs.008.001.08" /\ Pacs008.created = "utc"
      /\ Pacs008.messageId.length \in 1..35
  <2>1. Pacs008.messageId = MessageIdentification
    BY DEF Pacs008, BuildPacs008
  <2>2. Pacs008.messageId.length \in 18..35
    BY <2>1, AcceptedParts
  <2>3. QED
    BY <2>2 DEF Pacs008, BuildPacs008, CreationDateTime
<1>2. ASSUME m = Transfer PROVE KeepsTheProfile(m)
  <2>1. CASE OverMq
    <3>1. m = Wrap("FedNowCustomerCreditTransfer", Pacs008)
      BY <1>2, <2>1 DEF Transfer, OnTheWire
    <3>2. Parses(m) /\ ValidateEnvelope(m) = {}
      BY <1>1, <3>1, WrappedIsValid DEF Accepted
    <3>3. QED
      BY <2>1, <3>2 DEF KeepsTheProfile
  <2>2. CASE ~OverMq
    BY <1>1, <1>2, <2>2 DEF Transfer, OnTheWire, KeepsTheProfile, Accepted
  <2>3. QED
    BY <2>1, <2>2
<1>3. ASSUME NEW n \in 1..MaxQueries, m = Asking(n) PROVE KeepsTheProfile(m)
  <2> DEFINE d == Pacs028(n)
  <2>1. /\ ValidatePacs028(d) = {} /\ d.xmlns = "pacs.028.001.03" /\ d.created = "utc"
        /\ d.messageId.length \in 1..35
    BY QueryIsValid
  <2>2. m = OnTheWire("FedNowPaymentStatusRequest", d)
    BY <1>3 DEF Asking
  <2> HIDE DEF d
  <2>3. CASE OverMq
    <3>1. m = Wrap("FedNowPaymentStatusRequest", d)
      BY <2>2, <2>3 DEF OnTheWire
    <3>2. Parses(m) /\ ValidateEnvelope(m) = {}
      BY <2>1, <3>1, WrappedIsValid
    <3>3. QED
      BY <2>3, <3>2 DEF KeepsTheProfile
  <2>4. CASE ~OverMq
    BY <2>1, <2>2, <2>4 DEF OnTheWire, KeepsTheProfile
  <2>5. QED
    BY <2>3, <2>4
<1>4. QED
  BY <1>2, <1>3 DEF Traffic

\* The simulator finds no fault with an accepted submission, and plays its
\* scenario.
LEMMA ScenarioIsPlayed ==
  ASSUME setup \in Setups, Accepted
  PROVE  ScenarioOf(Pacs008) = Decide(Pacs008)
<1>1. CASE OverMq
  <2>1. ValidateEnvelope(Wrap("FedNowCustomerCreditTransfer", Pacs008)) = {}
    <3>1. KeepsTheProfile(Transfer)
      BY TrafficIsGood DEF Traffic
    <3>2. QED
      BY <1>1, <3>1 DEF KeepsTheProfile, Transfer, OnTheWire
  <2>2. QED
    BY <1>1, <2>1 DEF ScenarioOf
<1>2. CASE ~OverMq
  BY <1>2 DEF ScenarioOf, Accepted
<1>3. QED
  BY <1>1, <1>2

-----------------------------------------------------------------------------
(* The inductive invariant.                                                *)

\* The submission was accepted.
Standing == payment # None /\ payment.state # "CREATED"

\* The pacs.008 has reached the simulator and the gateway knows it.
OnRecord == Standing /\ payment.state # "SUBMITTED"

\* The messages the payment's record tells of: its publication and its queries.
Recorded ==
  IF OnRecord THEN payment.queries + 1 ELSE IF Standing THEN payment.queries ELSE 0

\* The payment is what its request made it, and stays within its bounds.
PaymentInv ==
  /\ setup \in Setups
  /\ payment # None =>
       /\ payment \in Aggregate!PaymentRecord /\ payment.queries <= MaxQueries
       /\ payment.state \in {"CREATED"} \cup Aggregate!Cleared
       /\ issues = ValidatePacs008(Pacs008)
       /\ payment.state # "CREATED" <=> Accepted
  /\ outbox # None => outbox = Pacs008 /\ Standing /\ payment.state = "SUBMITTED"

\* The simulator's books on the one payment.
Books ==
  /\ queue \in Seq(Mail) /\ tasks \in Seq(Mail)
  /\ DOMAIN ledger \subseteq {MessageIdentification}
  /\ \A id \in DOMAIN ledger : ledger[id] \in Seq(Advices) /\ ledger[id] # << >>

\* What is on the wire, in the ledger and in the queue is about an accepted
\* submission, and each message sent is a publication, a query or a loss.
WireInv ==
  /\ losses \in 0..MaxLosses
  /\ Books
  /\ sent \in Seq(Traffic)
  /\ Len(sent) <= losses + Recorded
  /\ OnRecord => MessageIdentification \in DOMAIN ledger
  /\ ~Standing => ledger = << >> /\ queue = << >> /\ tasks = << >> /\ sent = << >>

\* What the payment has heard is what the scenario means.
OutcomeInv ==
  /\ reason \in Reason \cup {None}
  /\ reason # None <=> payment # None /\ payment.state = "REJECTED"
  /\ heard \subseteq Meant
  /\ misread = FALSE

ExchangeInv == PaymentInv /\ WireInv /\ OutcomeInv

-----------------------------------------------------------------------------
(* What the events of one payment do to its aggregate.                     *)

\* A payment starts CREATED, and an accepted one is SUBMITTED at once.
LEMMA SubmissionMoves ==
  LET created   == Aggregate!NewPayment("pacs.008")
      submitted == Aggregate!Apply(Aggregate!Apply(created, Aggregate!Validated), Aggregate!Submitted)
  IN  /\ created \in Aggregate!PaymentRecord /\ created.state = "CREATED" /\ created.queries = 0
      /\ submitted \in Aggregate!PaymentRecord /\ submitted.state = "SUBMITTED"
      /\ submitted.queries = 0
<1> DEFINE created   == Aggregate!NewPayment("pacs.008")
           validated == [created EXCEPT !.state = "VALIDATED"]
           submitted == [created EXCEPT !.state = "SUBMITTED"]
<1>1. created \in Aggregate!PaymentRecord /\ created.state = "CREATED" /\ created.queries = 0
  BY DEF Aggregate!NewPayment, Aggregate!PaymentRecord, Aggregate!PaymentState
<1> HIDE DEF created
<1>2. Aggregate!Apply(created, Aggregate!Validated) = validated
  BY <1>1 DEF Aggregate!Apply, Aggregate!Legal, Aggregate!After, Aggregate!Validated
<1>3. /\ validated.state = "VALIDATED"
      /\ [validated EXCEPT !.state = "SUBMITTED"] = submitted
  BY <1>1 DEF Aggregate!PaymentRecord
<1>4. Aggregate!Apply(validated, Aggregate!Submitted) = submitted
  <2> HIDE DEF validated
  <2>1. Aggregate!Legal(validated, Aggregate!Submitted)
    BY <1>3 DEF Aggregate!Legal, Aggregate!Submitted
  <2>2. Aggregate!After(validated, Aggregate!Submitted) = [validated EXCEPT !.state = "SUBMITTED"]
    BY DEF Aggregate!After, Aggregate!Submitted
  <2>3. QED
    BY <1>3, <2>1, <2>2 DEF Aggregate!Apply
<1>5. /\ submitted \in Aggregate!PaymentRecord /\ submitted.state = "SUBMITTED"
      /\ submitted.queries = 0
  BY <1>1 DEF Aggregate!PaymentRecord, Aggregate!PaymentState
<1>6. QED
  BY <1>1, <1>2, <1>4, <1>5 DEF created

\* The publication of a SUBMITTED payment.
LEMMA PublicationMoves ==
  ASSUME NEW p \in Aggregate!PaymentRecord, p.state = "SUBMITTED"
  PROVE  LET q == Aggregate!Apply(p, Aggregate!Published(0))
         IN  /\ q \in Aggregate!PaymentRecord /\ q.state = "ACK_PENDING"
             /\ q.queries = p.queries
<1> DEFINE q == [p EXCEPT !.state = "ACK_PENDING", !.publishedAt = 0]
<1>1. Aggregate!Apply(p, Aggregate!Published(0)) = q
  BY DEF Aggregate!Apply, Aggregate!Legal, Aggregate!After, Aggregate!Published
<1>2. /\ q \in Aggregate!PaymentRecord /\ q.state = "ACK_PENDING" /\ q.queries = p.queries
  BY DEF Aggregate!PaymentRecord, Aggregate!PaymentState
<1>3. QED
  BY <1>1, <1>2

\* The declaration of a timeout.
LEMMA TimeoutMoves ==
  ASSUME NEW p \in Aggregate!PaymentRecord, Aggregate!Legal(p, Aggregate!TimeoutDeclared)
  PROVE  LET q == Aggregate!Apply(p, Aggregate!TimeoutDeclared)
         IN  /\ q \in Aggregate!PaymentRecord /\ q.state = "TIMEOUT_UNRESOLVED"
             /\ q.queries = p.queries /\ p.state = "ACK_PENDING"
<1> DEFINE q == [p EXCEPT !.state = "TIMEOUT_UNRESOLVED"]
<1>1. Aggregate!Apply(p, Aggregate!TimeoutDeclared) = q
  BY DEF Aggregate!Apply, Aggregate!After, Aggregate!TimeoutDeclared
<1>2. p.state = "ACK_PENDING"
  BY DEF Aggregate!Legal, Aggregate!TimeoutDeclared
<1>3. q \in Aggregate!PaymentRecord /\ q.state = "TIMEOUT_UNRESOLVED" /\ q.queries = p.queries
  BY DEF Aggregate!PaymentRecord, Aggregate!PaymentState
<1>4. QED
  BY <1>1, <1>2, <1>3

\* A query counts, and moves nothing else this module looks at.
LEMMA QueryMoves ==
  ASSUME NEW p \in Aggregate!PaymentRecord, Aggregate!Legal(p, Aggregate!QuerySent(0))
  PROVE  LET q == Aggregate!Apply(p, Aggregate!QuerySent(0))
         IN  /\ q \in Aggregate!PaymentRecord /\ q.state = p.state
             /\ q.queries = p.queries + 1 /\ p.state = "TIMEOUT_UNRESOLVED"
<1> DEFINE q == [p EXCEPT !.queries = @ + 1, !.lastQueryAt = 0]
<1>1. Aggregate!Apply(p, Aggregate!QuerySent(0)) = q
  BY DEF Aggregate!Apply, Aggregate!After, Aggregate!QuerySent
<1>2. p.state = "TIMEOUT_UNRESOLVED"
  BY DEF Aggregate!Legal, Aggregate!QuerySent, Aggregate!Queryable
<1>3. p.queries \in Nat
  BY DEF Aggregate!PaymentRecord
<1> DEFINE n == p.queries + 1
           r == [p EXCEPT !.queries = n, !.lastQueryAt = 0]
<1>4. n \in Nat /\ q = r
  BY <1>3
<1>5. r \in Aggregate!PaymentRecord /\ r.state = p.state /\ r.queries = n
  <2> HIDE DEF n
  <2>1. QED
    BY <1>4 DEF Aggregate!PaymentRecord
<1>6. QED
  BY <1>1, <1>2, <1>4, <1>5

\* An advice settles, rejects or leaves a payment that awaits one, and does
\* nothing to any other; a rejection is of an unsettled payment, by an RJCT.
LEMMA AdviceMoves ==
  ASSUME NEW p \in Aggregate!PaymentRecord, NEW s \in Aggregate!AdviceStatus
  PROVE  LET q == Aggregate!Apply(p, Aggregate!AdviceReceived(s))
             awaiting == p.state \in {"ACK_PENDING", "TIMEOUT_UNRESOLVED", "SETTLED"}
         IN  /\ q \in Aggregate!PaymentRecord /\ q.queries = p.queries
             /\ Aggregate!Legal(p, Aggregate!AdviceReceived(s)) <=> awaiting
             /\ q.state = IF awaiting THEN Aggregate!AfterAdvice(p.state, s) ELSE p.state
             /\ awaiting => q.state \in {p.state, "SETTLED", "REJECTED"}
             /\ awaiting => (q.state = "REJECTED" => s = "RJCT")
<1> DEFINE e == Aggregate!AdviceReceived(s)
           awaiting == p.state \in {"ACK_PENDING", "TIMEOUT_UNRESOLVED", "SETTLED"}
           q == [p EXCEPT !.state = Aggregate!AfterAdvice(p.state, s), !.advice = s]
<1>1. Aggregate!Legal(p, e) <=> awaiting
  BY DEF Aggregate!Legal, Aggregate!AdviceReceived
<1>2. Aggregate!After(p, e) = q
  BY DEF Aggregate!After, Aggregate!AdviceReceived
<1>3. Aggregate!AfterAdvice(p.state, s) \in {p.state, "SETTLED", "REJECTED"}
  BY DEF Aggregate!AfterAdvice
<1>4. awaiting /\ Aggregate!AfterAdvice(p.state, s) = "REJECTED" => s = "RJCT"
  BY DEF Aggregate!AfterAdvice
<1>5. p.state \in Aggregate!PaymentState
  BY DEF Aggregate!PaymentRecord
<1>6. Aggregate!AfterAdvice(p.state, s) \in Aggregate!PaymentState
  BY <1>3, <1>5 DEF Aggregate!PaymentState
<1>7. q \in Aggregate!PaymentRecord /\ q.queries = p.queries
      /\ q.state = Aggregate!AfterAdvice(p.state, s)
  BY <1>6 DEF Aggregate!PaymentRecord
<1> HIDE DEF e, q
<1>8. Aggregate!Apply(p, e) = IF awaiting THEN q ELSE p
  BY <1>1, <1>2 DEF Aggregate!Apply
<1>9. QED
  BY <1>1, <1>3, <1>4, <1>7, <1>8 DEF e

-----------------------------------------------------------------------------
(* What the handlers of both sides do.                                     *)

\* Everything said of a setup is said of it for good.
LEMMA SettingsStay ==
  ASSUME setup' = setup
  PROVE  /\ MessageIdentification' = MessageIdentification /\ Pacs008' = Pacs008
         /\ Accepted' = Accepted /\ Meant' = Meant /\ ReasonFlaw' = ReasonFlaw
         /\ Advices' = Advices /\ Mail' = Mail /\ Traffic' = Traffic
<1>1. Body' = Body /\ OverMq' = OverMq
  BY DEF Body, OverMq
<1>2. MessageIdentification' = MessageIdentification
      /\ EndToEndIdentification' = EndToEndIdentification
  BY <1>1 DEF MessageIdentification, EndToEndIdentification
<1>3. Pacs008' = Pacs008
  BY <1>1, <1>2 DEF Pacs008, CreationDateTime
<1>4. Accepted' = Accepted
  BY <1>3 DEF Accepted
<1>5. Meant' = Meant /\ ReasonFlaw' = ReasonFlaw
  <2>1. Decide(Pacs008)' = Decide(Pacs008)
    BY <1>3 DEF Decide
  <2>2. QED
    BY <2>1 DEF Meant, ReasonFlaw
<1>6. Advices' = Advices
  BY <1>2, <1>5 DEF Advices, IsAdvice
<1>7. \A a : WrapAdvice(a, a.messageId)' = WrapAdvice(a, a.messageId)
  BY DEF WrapAdvice
<1>8. Mail' = Mail
  BY <1>6, <1>7 DEF Mail
<1>9. Transfer' = Transfer
  BY <1>1, <1>3 DEF Transfer, OnTheWire, Wrap
<1>10. \A n : Asking(n)' = Asking(n)
  BY <1>1, <1>2 DEF Asking, OnTheWire, Wrap, Pacs028, CreationDateTime, QueryReference, DecimalDigits
<1>11. Traffic' = Traffic
  BY <1>9, <1>10 DEF Traffic
<1>12. QED
  BY <1>2, <1>3, <1>4, <1>5, <1>6, <1>8, <1>11

\* What a scenario means is a report, and a rejection is always explained.
LEMMA MeantIsReports ==
  ASSUME setup \in Setups
  PROVE  Meant \subseteq Reports /\ \A r \in Meant : r.status = "RJCT" => r.reason # None
<1> DEFINE x == Decide(Pacs008)
           plain(status) == [status |-> status, reason |-> None]
           rejected(code) == [status |-> "RJCT", reason |-> code]
<1>1. /\ x.kind \in {"Reject", "RejectService"} => x.detail \in Reason
      /\ x.kind = "AcwpThen" => x.detail \in FollowUp
  BY ScenarioType
<1>2. /\ \A code \in Reason : rejected(code) \in Reports /\ rejected(code).reason # None
      /\ \A status \in {"ACCC", "BLCK", "PDNG", "ACWP", "ACSC"} :
           plain(status) \in Reports /\ plain(status).status # "RJCT"
  BY MessageAssumption DEF Reports, Aggregate!AdviceStatus
<1>3. "AC04" \in Reason
  BY ExchangeAssumption, MessageAssumption
<1>4. \/ \E code \in Reason : Meant = {rejected(code)}
      \/ \E status \in {"ACWP", "ACSC"} : Meant = {plain(status)}
      \/ Meant = {plain("ACWP"), rejected("AC04")}
      \/ \E status \in {"ACCC", "BLCK", "PDNG"} : Meant = {plain("ACWP"), plain(status)}
  <2>1. CASE x.kind \in {"Reject", "RejectService"}
    BY <1>1, <2>1 DEF Meant
  <2>2. CASE x.kind = "AcwpThen"
    BY <1>1, <2>2 DEF Meant, FollowUp
  <2>3. CASE x.kind = "AcceptWithoutPosting"
    BY <2>3 DEF Meant
  <2>4. CASE x.kind \notin {"Reject", "RejectService", "AcwpThen", "AcceptWithoutPosting"}
    BY <2>4 DEF Meant
  <2>5. QED
    BY <2>1, <2>2, <2>3, <2>4
<1> HIDE DEF plain, rejected
<1>5. QED
  BY <1>2, <1>3, <1>4

\* An advice is not the absence of one.
LEMMA AdvicesArePresent ==
  ASSUME NEW a \in Advices
  PROVE  a # None /\ AdviceFromPacs002(a) \in Meant /\ a \in Pacs002Record
BY MessageAssumption DEF Advices, IsAdvice

\* An entry of two advices.
LEMMA TwoAdvices ==
  ASSUME NEW S, NEW a \in S, NEW f \in S
  PROVE  LET u == <<a>> \o <<f>>
         IN  u \in Seq(S) /\ u # << >> /\ u[1] = a /\ u[2] = f
<1> DEFINE s == <<a>>
           t == <<f>>
           u == s \o t
<1>1. s \in Seq(S) /\ t \in Seq(S) /\ Len(s) = 1 /\ Len(t) = 1 /\ s[1] = a /\ t[1] = f
  OBVIOUS
<1> HIDE DEF s, t
<1>2. u \in Seq(S) /\ Len(u) = 2 /\ \A i \in 1..2 : u[i] = IF i <= 1 THEN s[i] ELSE t[i - 1]
  BY <1>1, ConcatProperties
<1>3. u[1] = a /\ u[2] = f /\ u # << >>
  BY <1>1, <1>2
<1>4. QED
  BY <1>2, <1>3 DEF s, t

\* What the simulator writes in its books about the submission, and mails.
LEMMA EntryIsGood ==
  ASSUME setup \in Setups, Accepted
  PROVE  LET x     == Decide(Pacs008)
             entry == LedgerEntry(Pacs008, x)
         IN  /\ entry \in Seq(Advices) /\ entry # << >>
             /\ WrapAdvice(entry[1], AdviceId(Pacs008.messageId)) \in Mail
             /\ x.kind = "AcwpThen" =>
                  WrapAdvice(entry[2], FollowUpAdviceId(Pacs008.messageId)) \in Mail
<1> DEFINE x == Decide(Pacs008)
           a == AdviceXml(Pacs008, x)
           f == FollowUpAdviceXml(Pacs008, x.detail)
<1>1. Pacs008.messageId = MessageIdentification
  BY DEF Pacs008, BuildPacs008
<1>2. a \in Advices /\ a.messageId = AdviceId(Pacs008.messageId)
  <2>1. IsAdvice(a) /\ a.messageId = AdviceId(MessageIdentification)
    BY AdviceIsGood
  <2> HIDE DEF a
  <2>2. a \in Advices
    BY <2>1 DEF Advices, IsAdvice
  <2>3. QED
    BY <1>1, <2>1, <2>2
<1>3. ASSUME x.kind = "AcwpThen"
      PROVE  f \in Advices /\ f.messageId = FollowUpAdviceId(Pacs008.messageId)
  <2>1. IsAdvice(f) /\ f.messageId = FollowUpAdviceId(MessageIdentification)
    BY <1>3, FollowUpIsGood
  <2> HIDE DEF f
  <2>2. f \in Advices
    BY <2>1 DEF Advices, IsAdvice
  <2>3. QED
    BY <1>1, <2>1, <2>2
<1>4. LedgerEntry(Pacs008, x) = <<a>> \o (IF x.kind = "AcwpThen" THEN <<f>> ELSE << >>)
  BY DEF LedgerEntry
<1> HIDE DEF x, a, f
<1>5. WrapAdvice(a, AdviceId(Pacs008.messageId)) \in Mail
  BY <1>2 DEF Mail
<1>6. CASE x.kind = "AcwpThen"
  <2>1. LedgerEntry(Pacs008, x) = <<a>> \o <<f>>
    BY <1>4, <1>6
  <2>2. WrapAdvice(f, FollowUpAdviceId(Pacs008.messageId)) \in Mail
    BY <1>3, <1>6 DEF Mail
  <2> DEFINE entry == <<a>> \o <<f>>
  <2>3. entry \in Seq(Advices) /\ entry # << >> /\ entry[1] = a /\ entry[2] = f
    BY <1>2, <1>3, <1>6, TwoAdvices
  <2> HIDE DEF entry
  <2>4. QED
    BY <1>5, <2>1, <2>2, <2>3 DEF x, entry
<1>7. CASE x.kind # "AcwpThen"
  <2>1. LedgerEntry(Pacs008, x) = <<a>>
    BY <1>4, <1>7
  <2>2. <<a>> \in Seq(Advices) /\ <<a>> # << >> /\ <<a>>[1] = a
    BY <1>2
  <2>3. QED
    BY <1>5, <1>7, <2>1, <2>2 DEF x
<1>8. QED
  BY <1>6, <1>7

\* Each time the submission arrives the simulator's books stay good, and it has
\* an advice on record.
LEMMA TransferIsHandled ==
  ASSUME setup \in Setups, Accepted, Books, setup' = setup, HandlePacs008(Pacs008)
  PROVE  Books' /\ MessageIdentification \in DOMAIN ledger'
<1> DEFINE x     == Decide(Pacs008)
           id    == Pacs008.messageId
           entry == LedgerEntry(Pacs008, x)
           now   == WrapAdvice(entry[1], AdviceId(id))
           later == WrapAdvice(entry[2], FollowUpAdviceId(id))
<1>1. id = MessageIdentification
  BY DEF Pacs008, BuildPacs008
<1>2. /\ entry \in Seq(Advices) /\ entry # << >> /\ now \in Mail
      /\ x.kind = "AcwpThen" => later \in Mail
  BY EntryIsGood
<1>3. /\ ledger' = [i \in DOMAIN ledger \cup {id} |-> IF i = id THEN entry ELSE ledger[i]]
      /\ queue' = IF OverMq /\ x.kind \notin {"Timeout", "Delay"} THEN Append(queue, now) ELSE queue
      /\ tasks' = CASE OverMq /\ x.kind = "Delay"    -> Append(tasks, now)
                    [] OverMq /\ x.kind = "AcwpThen" -> Append(tasks, later)
                    [] OTHER -> tasks
  BY ScenarioIsPlayed DEF HandlePacs008
<1> HIDE DEF x, id, entry, now, later
<1>4. queue' \in Seq(Mail)
  BY <1>2, <1>3 DEF Books
<1>5. tasks' \in Seq(Mail)
  <2>1. CASE OverMq /\ x.kind = "Delay"
    BY <1>2, <1>3, <2>1 DEF Books
  <2>2. CASE OverMq /\ x.kind = "AcwpThen"
    <3>1. tasks' = Append(tasks, later)
      BY <1>3, <2>2
    <3>2. QED
      BY <1>2, <2>2, <3>1 DEF Books
  <2>3. CASE ~OverMq \/ x.kind \notin {"Delay", "AcwpThen"}
    <3>1. tasks' = tasks
      BY <1>3, <2>3
    <3>2. QED
      BY <3>1 DEF Books
  <2>4. QED
    BY <2>1, <2>2, <2>3
<1>6. DOMAIN ledger' = {MessageIdentification} /\ ledger'[MessageIdentification] = entry
  BY <1>1, <1>3 DEF Books
<1>7. \A i \in DOMAIN ledger' : ledger'[i] \in Seq(Advices) /\ ledger'[i] # << >>
  BY <1>2, <1>6
<1>8. QED
  BY <1>4, <1>5, <1>6, <1>7, SettingsStay DEF Books

\* A query about a submission on record is answered with its last advice.
LEMMA QueryIsHandled ==
  ASSUME setup \in Setups, Accepted, Books, MessageIdentification \in DOMAIN ledger,
         NEW n \in Nat, setup' = setup, HandlePacs028(Pacs028(n))
  PROVE  LatestAdvice(Pacs028(n)) \in Advices /\ Books' /\ UNCHANGED ledger
<1> DEFINE d     == Pacs028(n)
           entry == ledger[MessageIdentification]
<1>1. /\ ValidatePacs028(d) = {}
      /\ d.transactions[1].original.messageId = MessageIdentification
  BY QueryIsValid
<1>2. entry \in Seq(Advices) /\ entry # << >>
  BY DEF Books
<1>3. LatestAdvice(d) = entry[Len(entry)]
  BY <1>1 DEF LatestAdvice
<1>4. UNCHANGED <<ledger, tasks>>
      /\ queue' = IF OverMq /\ LatestAdvice(d) # None
                  THEN Append(queue, WrapAdvice(LatestAdvice(d), LatestAdvice(d).messageId))
                  ELSE queue
  BY DEF HandlePacs028
<1> HIDE DEF d, entry
<1>5. LatestAdvice(d) \in Advices
  <2>1. Len(entry) \in 1..Len(entry)
    BY <1>2
  <2>2. QED
    BY <1>2, <1>3, <2>1
<1>6. WrapAdvice(LatestAdvice(d), LatestAdvice(d).messageId) \in Mail
  BY <1>5 DEF Mail
<1>7. queue' \in Seq(Mail)
  BY <1>4, <1>6 DEF Books
<1>8. QED
  BY <1>4, <1>5, <1>7, SettingsStay DEF Books, d

\* The gateway reads what the scenario means in any advice, and believes it of a
\* payment that awaits one: a rejection comes with its reason.
LEMMA AdviceIsTaken ==
  ASSUME setup \in Setups, setup' = setup,
         NEW p \in Aggregate!PaymentRecord, NEW d \in Advices, TakeAdvice(p, d),
         reason \in Reason \cup {None}, reason # None <=> p.state = "REJECTED",
         heard \subseteq Meant
  PROVE  /\ payment' \in Aggregate!PaymentRecord /\ payment'.queries = p.queries
         /\ \/ payment'.state = p.state
            \/ p.state \in {"ACK_PENDING", "TIMEOUT_UNRESOLVED", "SETTLED"}
                 /\ payment'.state \in {"SETTLED", "REJECTED"}
         /\ reason' \in Reason \cup {None}
         /\ reason' # None <=> payment'.state = "REJECTED"
         /\ heard' \subseteq Meant
         /\ misread' = misread
<1> DEFINE report == AdviceFromPacs002(d)
           s == report.status
           q == Aggregate!Apply(p, Aggregate!AdviceReceived(s))
           awaiting == p.state \in {"ACK_PENDING", "TIMEOUT_UNRESOLVED", "SETTLED"}
<1>1. report \in Meant /\ report \in Reports /\ (s = "RJCT" => report.reason # None)
  BY AdvicesArePresent, MeantIsReports
<1>2. report # None
  BY <1>1, AggregateAssumption
<1>3. s \in Aggregate!AdviceStatus /\ report.reason \in Reason \cup {None}
  BY <1>1 DEF Reports
<1>4. /\ payment' = q
      /\ heard' = IF Aggregate!Legal(p, Aggregate!AdviceReceived(s)) THEN heard \cup {report} ELSE heard
      /\ reason' = IF p.state # "REJECTED" /\ payment'.state = "REJECTED" THEN report.reason ELSE reason
      /\ misread' = misread
  BY <1>2 DEF TakeAdvice
<1> HIDE DEF report, s, q
<1>5. /\ q \in Aggregate!PaymentRecord /\ q.queries = p.queries
      /\ q.state = IF awaiting THEN Aggregate!AfterAdvice(p.state, s) ELSE p.state
      /\ awaiting => q.state \in {p.state, "SETTLED", "REJECTED"}
      /\ awaiting => (q.state = "REJECTED" => s = "RJCT")
  BY <1>3, AdviceMoves DEF q
<1>6. heard' \subseteq Meant
  BY <1>1, <1>4
<1>7. reason' \in Reason \cup {None} /\ (reason' # None <=> payment'.state = "REJECTED")
  <2>1. CASE p.state # "REJECTED" /\ q.state = "REJECTED"
    <3>1. awaiting
      BY <1>5, <2>1
    <3>2. s = "RJCT" /\ reason' = report.reason
      BY <1>4, <1>5, <2>1, <3>1
    <3>3. QED
      BY <1>1, <1>3, <1>4, <2>1, <3>2
  <2>2. CASE p.state = "REJECTED"
    <3>1. q.state = "REJECTED"
      BY <1>5, <2>2
    <3>2. QED
      BY <1>4, <2>2, <3>1
  <2>3. CASE p.state # "REJECTED" /\ q.state # "REJECTED"
    BY <1>4, <2>3
  <2>4. QED
    BY <2>1, <2>2, <2>3
<1>8. \/ q.state = p.state
      \/ awaiting /\ q.state \in {"SETTLED", "REJECTED"}
  BY <1>5
<1>9. QED
  BY <1>4, <1>5, <1>6, <1>7, <1>8

\* The simulator's response to a submission is an advice, or says nothing.
LEMMA ReplyIsGood ==
  ASSUME setup \in Setups, Accepted, ReplyToPacs008(Pacs008) # None
  PROVE  ReplyToPacs008(Pacs008) \in Advices
<1> DEFINE a == AdviceXml(Pacs008, Decide(Pacs008))
<1>1. IsAdvice(a)
  BY AdviceIsGood
<1>2. ReplyToPacs008(Pacs008) = a
  BY ScenarioIsPlayed DEF ReplyToPacs008
<1> HIDE DEF a
<1>3. QED
  BY <1>1, <1>2 DEF Advices, IsAdvice

\* What a step keeps once the settings stay and the books are good.
LEMMA PartsHold ==
  ASSUME setup \in Setups, setup' = setup
  PROVE  /\ PaymentInv' <=>
              /\ payment' # None =>
                   /\ payment' \in Aggregate!PaymentRecord /\ payment'.queries <= MaxQueries
                   /\ payment'.state \in {"CREATED"} \cup Aggregate!Cleared
                   /\ issues' = ValidatePacs008(Pacs008)
                   /\ payment'.state # "CREATED" <=> Accepted
              /\ outbox' # None => outbox' = Pacs008 /\ Standing' /\ payment'.state = "SUBMITTED"
         /\ OutcomeInv' <=>
              /\ reason' \in Reason \cup {None}
              /\ reason' # None <=> payment' # None /\ payment'.state = "REJECTED"
              /\ heard' \subseteq Meant
              /\ misread' = FALSE
<1>1. Pacs008' = Pacs008 /\ Accepted' = Accepted /\ Meant' = Meant
  BY SettingsStay
<1>2. ValidatePacs008(Pacs008)' = ValidatePacs008(Pacs008)
  BY <1>1
<1>3. QED
  BY <1>1, <1>2 DEF PaymentInv, OutcomeInv

-----------------------------------------------------------------------------
(* The invariant is inductive: the initial states, then one lemma for each  *)
(* action.                                                                  *)

\* Nothing has happened yet.
LEMMA InitEstablishes == Init => ExchangeInv
<1> SUFFICES ASSUME Init PROVE ExchangeInv
  OBVIOUS
<1>1. payment = None /\ ~Standing /\ ~OnRecord
  BY DEF Init, Standing, OnRecord
<1>2. PaymentInv
  BY <1>1 DEF Init, PaymentInv
<1>3. Books
  BY DEF Init, Books
<1>4. WireInv
  <2>1. losses = 0 /\ MaxLosses \in Nat
    BY ExchangeAssumption DEF Init
  <2>2. sent = << >> /\ sent \in Seq(Traffic) /\ Len(sent) = 0
    BY DEF Init
  <2>3. ledger = << >> /\ queue = << >> /\ tasks = << >>
    BY DEF Init
  <2>4. Recorded = 0 /\ Len(sent) <= losses + Recorded
    BY <1>1, <2>1, <2>2 DEF Recorded
  <2>5. losses \in 0..MaxLosses
    BY <2>1
  <2>6. QED
    BY <1>1, <1>3, <2>2, <2>3, <2>4, <2>5 DEF WireInv
<1>5. OutcomeInv
  BY <1>1 DEF Init, OutcomeInv
<1>6. QED
  BY <1>2, <1>4, <1>5 DEF ExchangeInv

\* A payment there is is a record, whose queries are counted.
LEMMA PaymentThere ==
  ASSUME ExchangeInv, payment # None
  PROVE  payment \in Aggregate!PaymentRecord /\ payment.queries \in Nat
BY DEF ExchangeInv, PaymentInv, Aggregate!PaymentRecord

\* A payment starts with its submission judged, and nothing sent.
LEMMA SubmitKeeps == ASSUME ExchangeInv, Submit PROVE ExchangeInv'
<1> DEFINE created   == Aggregate!NewPayment("pacs.008")
           submitted == Aggregate!Apply(Aggregate!Apply(created, Aggregate!Validated), Aggregate!Submitted)
<1>1. /\ payment = None /\ issues' = ValidatePacs008(Pacs008)
      /\ IF issues' = {} THEN payment' = submitted /\ outbox' = Pacs008
         ELSE payment' = created /\ UNCHANGED outbox
      /\ UNCHANGED <<setup, reason, ledger, queue, tasks, sent, heard, misread, losses>>
  BY DEF Submit, simVars
<1>2. /\ created \in Aggregate!PaymentRecord /\ created.state = "CREATED" /\ created.queries = 0
      /\ submitted \in Aggregate!PaymentRecord /\ submitted.state = "SUBMITTED"
      /\ submitted.queries = 0
  BY SubmissionMoves
<1> HIDE DEF created, submitted
<1>3. setup \in Setups /\ outbox = None
  BY <1>1 DEF ExchangeInv, PaymentInv, Standing
<1>4. Accepted <=> issues' = {}
  BY <1>1 DEF Accepted
<1>5. /\ payment' \in Aggregate!PaymentRecord /\ payment'.queries = 0 /\ payment' # None
      /\ payment'.state = IF Accepted THEN "SUBMITTED" ELSE "CREATED"
      /\ outbox' # None => outbox' = Pacs008 /\ Accepted
  BY <1>1, <1>2, <1>3, <1>4, AggregateAssumption
<1>6. MaxQueries \in Nat
  BY ExchangeAssumption
<1>7. PaymentInv'
  <2>1. payment'.state \in {"CREATED"} \cup Aggregate!Cleared
    BY <1>5 DEF Aggregate!Cleared
  <2>2. payment'.state # "CREATED" <=> Accepted
    BY <1>5
  <2>3. outbox' # None => outbox' = Pacs008 /\ Standing' /\ payment'.state = "SUBMITTED"
    BY <1>5 DEF Standing
  <2>4. QED
    BY <1>1, <1>3, <1>5, <1>6, <2>1, <2>2, <2>3, PartsHold
<1>8. OutcomeInv'
  BY <1>1, <1>3, <1>5, PartsHold DEF ExchangeInv, OutcomeInv
<1>9. /\ losses \in 0..MaxLosses /\ Books
      /\ ledger = << >> /\ queue = << >> /\ tasks = << >> /\ sent = << >>
  BY <1>1 DEF ExchangeInv, WireInv, Standing
<1>10. WireInv'
  <2>1. Books'
    BY <1>1, <1>9, SettingsStay DEF Books
  <2>2. ledger' = << >> /\ queue' = << >> /\ tasks' = << >> /\ sent' = << >>
    BY <1>1, <1>9
  <2>3. ~OnRecord'
    BY <1>5 DEF OnRecord, Standing
  <2>4. losses' \in 0..MaxLosses /\ losses' \in Nat
    BY <1>1, <1>9
  <2>5. Recorded' = 0
    BY <1>5, <2>3 DEF Recorded
  <2>6. Len(sent') = 0
    BY <2>2
  <2>7. Len(sent') <= losses' + Recorded'
    <3>1. 0 <= losses + 0
      BY <1>9
    <3>2. QED
      BY <1>1, <2>5, <2>6, <3>1
  <2>8. sent' \in Seq(Traffic')
    BY <2>2
  <2>9. QED
    BY <2>1, <2>2, <2>3, <2>4, <2>7, <2>8 DEF WireInv
<1>11. QED
  BY <1>7, <1>8, <1>10 DEF ExchangeInv

\* What is known when the transfer goes out.
LEMMA SendingTransfer ==
  ASSUME ExchangeInv, SendTransfer, setup' = setup
  PROVE  /\ setup \in Setups /\ Accepted /\ outbox = Pacs008 /\ Standing
         /\ payment.state = "SUBMITTED" /\ payment \in Aggregate!PaymentRecord
         /\ payment.queries \in Nat /\ payment.queries <= MaxQueries /\ reason = None
         /\ Books' /\ MessageIdentification' \in DOMAIN ledger'
         /\ sent' \in Seq(Traffic') /\ Len(sent') <= losses + payment.queries + 1
<1>1. outbox # None /\ HandlePacs008(outbox)
      /\ sent' = Append(sent, OnTheWire("FedNowCustomerCreditTransfer", outbox))
  BY DEF SendTransfer
<1>2. setup \in Setups /\ outbox = Pacs008 /\ Standing /\ payment.state = "SUBMITTED"
  BY <1>1 DEF ExchangeInv, PaymentInv
<1>3. payment # None /\ payment \in Aggregate!PaymentRecord /\ payment.queries \in Nat
  BY <1>2, PaymentThere DEF Standing
<1>4. payment.queries <= MaxQueries /\ Accepted
  BY <1>2, <1>3 DEF ExchangeInv, PaymentInv, Standing
<1>5. reason = None
  BY <1>2 DEF ExchangeInv, OutcomeInv
<1>6. Books' /\ MessageIdentification' \in DOMAIN ledger'
  <2>1. Books
    BY DEF ExchangeInv, WireInv
  <2>2. Books' /\ MessageIdentification \in DOMAIN ledger'
    BY <1>1, <1>2, <1>4, <2>1, TransferIsHandled
  <2>3. QED
    BY <2>2, SettingsStay
<1>7. sent \in Seq(Traffic) /\ Len(sent) <= losses + payment.queries /\ losses \in Nat
  <2>1. Recorded = payment.queries
    BY <1>2 DEF Recorded, OnRecord
  <2>2. QED
    BY <2>1 DEF ExchangeInv, WireInv
<1>8. Transfer \in Traffic /\ sent' = Append(sent, Transfer)
  BY <1>1, <1>2 DEF Traffic, Transfer
<1>9. sent' \in Seq(Traffic') /\ Len(sent') <= losses + payment.queries + 1
  BY <1>3, <1>7, <1>8, SettingsStay
<1>10. QED
  BY <1>2, <1>3, <1>4, <1>5, <1>6, <1>9

\* An accepted payment that stays one keeps the invariant, if what the step
\* sends and records agree.
LEMMA StandingKeeps ==
  ASSUME setup \in Setups, setup' = setup, Accepted,
         payment' \in Aggregate!PaymentRecord, payment'.queries <= MaxQueries,
         payment'.state \in Aggregate!Cleared, issues' = ValidatePacs008(Pacs008),
         outbox' # None => outbox' = Pacs008 /\ payment'.state = "SUBMITTED",
         reason' \in Reason \cup {None}, reason' # None <=> payment'.state = "REJECTED",
         heard' \subseteq Meant, misread' = FALSE,
         losses' \in 0..MaxLosses, Books', sent' \in Seq(Traffic'),
         \/ payment'.state = "SUBMITTED" /\ Len(sent') <= losses' + payment'.queries
         \/ /\ payment'.state # "SUBMITTED" /\ MessageIdentification' \in DOMAIN ledger'
            /\ Len(sent') <= losses' + (payment'.queries + 1)
  PROVE  ExchangeInv'
<1>1. payment' # None /\ payment'.state # "CREATED"
  BY AggregateAssumption DEF Aggregate!Cleared
<1>2. Standing'
  BY <1>1 DEF Standing
<1>3. PaymentInv'
  BY <1>1, <1>2, PartsHold
<1>4. OutcomeInv'
  BY <1>1, PartsHold
<1>5. Len(sent') <= losses' + Recorded' /\ (OnRecord' => MessageIdentification' \in DOMAIN ledger')
  <2>1. CASE payment'.state = "SUBMITTED"
    <3>1. ~OnRecord'
      BY <2>1 DEF OnRecord
    <3>2. Recorded' = payment'.queries
      BY <1>2, <3>1 DEF Recorded
    <3>3. QED
      BY <2>1, <3>1, <3>2
  <2>2. CASE payment'.state # "SUBMITTED"
    <3>1. OnRecord'
      BY <1>2, <2>2 DEF OnRecord
    <3>2. Recorded' = payment'.queries + 1
      BY <3>1 DEF Recorded
    <3>3. QED
      BY <2>2, <3>2
  <2>3. QED
    BY <2>1, <2>2
<1>6. WireInv'
  BY <1>2, <1>5 DEF WireInv
<1>7. QED
  BY <1>3, <1>4, <1>6 DEF ExchangeInv

\* What holds of a payment whose submission was accepted.
LEMMA StandingHolds ==
  ASSUME ExchangeInv, payment # None, payment.state \in Aggregate!Cleared
  PROVE  /\ setup \in Setups /\ Accepted /\ issues = ValidatePacs008(Pacs008)
         /\ payment \in Aggregate!PaymentRecord /\ payment.queries \in Nat
         /\ payment.queries <= MaxQueries
         /\ outbox # None => outbox = Pacs008 /\ payment.state = "SUBMITTED"
         /\ reason \in Reason \cup {None} /\ (reason # None <=> payment.state = "REJECTED")
         /\ heard \subseteq Meant /\ misread = FALSE
         /\ losses \in 0..MaxLosses /\ losses \in Nat /\ Books /\ sent \in Seq(Traffic)
         /\ \/ payment.state = "SUBMITTED" /\ Len(sent) <= losses + payment.queries
            \/ /\ payment.state # "SUBMITTED" /\ MessageIdentification \in DOMAIN ledger
               /\ Len(sent) <= losses + (payment.queries + 1)
<1>1. payment \in Aggregate!PaymentRecord /\ payment.queries \in Nat
  BY PaymentThere
<1>2. payment.state # "CREATED"
  BY DEF Aggregate!Cleared
<1>3. /\ setup \in Setups /\ Accepted /\ issues = ValidatePacs008(Pacs008)
      /\ payment.queries <= MaxQueries
      /\ outbox # None => outbox = Pacs008 /\ payment.state = "SUBMITTED"
  BY <1>2 DEF ExchangeInv, PaymentInv
<1>4. /\ reason \in Reason \cup {None} /\ (reason # None <=> payment.state = "REJECTED")
      /\ heard \subseteq Meant /\ misread = FALSE
  BY DEF ExchangeInv, OutcomeInv
<1>5. losses \in 0..MaxLosses /\ losses \in Nat /\ Books /\ sent \in Seq(Traffic)
  BY DEF ExchangeInv, WireInv
<1>6. Standing /\ (OnRecord <=> payment.state # "SUBMITTED")
  BY <1>2 DEF Standing, OnRecord
<1>7. Recorded = IF payment.state = "SUBMITTED" THEN payment.queries ELSE payment.queries + 1
  BY <1>6 DEF Recorded
<1>8. Len(sent) <= losses + Recorded /\ (OnRecord => MessageIdentification \in DOMAIN ledger)
  BY DEF ExchangeInv, WireInv
<1>9. \/ payment.state = "SUBMITTED" /\ Len(sent) <= losses + payment.queries
      \/ /\ payment.state # "SUBMITTED" /\ MessageIdentification \in DOMAIN ledger
         /\ Len(sent) <= losses + (payment.queries + 1)
  BY <1>6, <1>7, <1>8
<1>10. QED
  BY <1>1, <1>3, <1>4, <1>5, <1>9

\* The simulator's mail and messages are about an accepted submission.
LEMMA MailIsStanding ==
  ASSUME ExchangeInv, queue # << >> \/ tasks # << >>
  PROVE  payment # None /\ payment.state \in Aggregate!Cleared
<1>1. Standing
  BY DEF ExchangeInv, WireInv
<1>2. QED
  BY <1>1 DEF Standing, ExchangeInv, PaymentInv

\* The publication, answered or not.
LEMMA PublishKeeps == ASSUME ExchangeInv, Publish PROVE ExchangeInv'
<1> DEFINE p == Aggregate!Apply(payment, Aggregate!Published(0))
           reply == ReplyToPacs008(Pacs008)
<1>1. SendTransfer /\ UNCHANGED <<setup, issues, losses>> /\ outbox' = None
  BY DEF Publish
<1>2. /\ setup \in Setups /\ Accepted /\ outbox = Pacs008 /\ Standing
      /\ payment.state = "SUBMITTED" /\ payment \in Aggregate!PaymentRecord
      /\ payment.queries \in Nat /\ payment.queries <= MaxQueries /\ reason = None
      /\ Books' /\ MessageIdentification' \in DOMAIN ledger'
      /\ sent' \in Seq(Traffic') /\ Len(sent') <= losses + payment.queries + 1
  BY <1>1, SendingTransfer
<1>3. payment # None /\ payment.state \in Aggregate!Cleared
  BY <1>2 DEF Standing, Aggregate!Cleared
<1>4. /\ issues = ValidatePacs008(Pacs008) /\ heard \subseteq Meant /\ misread = FALSE
      /\ losses \in 0..MaxLosses /\ losses \in Nat
  BY <1>3, StandingHolds
<1>5. p \in Aggregate!PaymentRecord /\ p.state = "ACK_PENDING" /\ p.queries = payment.queries
  BY <1>2, PublicationMoves
<1>6. IF reply = None THEN payment' = p /\ UNCHANGED <<reason, heard, misread>>
      ELSE TakeAdvice(p, reply)
  BY <1>2 DEF Publish
<1> HIDE DEF p
<1>7. /\ payment' \in Aggregate!PaymentRecord /\ payment'.queries = payment.queries
      /\ payment'.state \in {"ACK_PENDING", "SETTLED", "REJECTED"}
      /\ reason' \in Reason \cup {None}
      /\ reason' # None <=> payment'.state = "REJECTED"
      /\ heard' \subseteq Meant /\ misread' = FALSE
  <2>1. CASE reply = None
    BY <1>2, <1>4, <1>5, <1>6, <2>1
  <2>2. CASE reply # None
    <3>1. reply \in Advices
      BY <1>2, <2>2, ReplyIsGood
    <3>2. TakeAdvice(p, reply)
      BY <1>6, <2>2
    <3>3. reason \in Reason \cup {None} /\ (reason # None <=> p.state = "REJECTED")
      BY <1>2, <1>5
    <3> HIDE DEF reply
    <3>4. /\ payment' \in Aggregate!PaymentRecord /\ payment'.queries = p.queries
          /\ payment'.state = p.state \/ payment'.state \in {"SETTLED", "REJECTED"}
          /\ reason' \in Reason \cup {None}
          /\ reason' # None <=> payment'.state = "REJECTED"
          /\ heard' \subseteq Meant /\ misread' = misread
      BY <1>1, <1>2, <1>4, <1>5, <3>1, <3>2, <3>3, AdviceIsTaken
    <3>5. QED
      BY <1>4, <1>5, <3>4
  <2>3. QED
    BY <2>1, <2>2
<1>8. payment'.state \in Aggregate!Cleared /\ payment'.state # "SUBMITTED"
  BY <1>7 DEF Aggregate!Cleared
<1>9. Len(sent') <= losses' + (payment'.queries + 1)
  <2>1. losses + payment.queries + 1 = losses + (payment.queries + 1)
    BY <1>2, <1>4
  <2>2. QED
    BY <1>1, <1>2, <1>7, <2>1
<1>10. QED
  BY <1>1, <1>2, <1>4, <1>7, <1>8, <1>9, StandingKeeps

\* The submission is on the record of the simulator only.
LEMMA PublishUnansweredKeeps == ASSUME ExchangeInv, PublishUnanswered PROVE ExchangeInv'
<1>1. /\ SendTransfer /\ losses < MaxLosses /\ losses' = losses + 1
      /\ UNCHANGED <<setup, payment, reason, issues, outbox, heard, misread>>
  BY DEF PublishUnanswered, Lose
<1>2. /\ setup \in Setups /\ Accepted /\ outbox = Pacs008 /\ Standing
      /\ payment.state = "SUBMITTED" /\ payment \in Aggregate!PaymentRecord
      /\ payment.queries \in Nat /\ payment.queries <= MaxQueries /\ reason = None
      /\ Books' /\ sent' \in Seq(Traffic') /\ Len(sent') <= losses + payment.queries + 1
  BY <1>1, SendingTransfer
<1>3. payment # None /\ payment.state \in Aggregate!Cleared
  BY <1>2 DEF Standing, Aggregate!Cleared
<1>4. /\ issues = ValidatePacs008(Pacs008) /\ heard \subseteq Meant /\ misread = FALSE
      /\ losses \in 0..MaxLosses /\ losses \in Nat
  BY <1>3, StandingHolds
<1>5. losses + 1 \in 0..MaxLosses /\ losses + payment.queries + 1 = losses + 1 + payment.queries
  BY <1>1, <1>2, <1>4, ExchangeAssumption
<1>6. losses' \in 0..MaxLosses /\ Len(sent') <= losses' + payment'.queries
  BY <1>1, <1>2, <1>5
<1>7. outbox' # None => outbox' = Pacs008 /\ payment'.state = "SUBMITTED"
  BY <1>1, <1>2
<1>8. reason' \in Reason \cup {None} /\ (reason' # None <=> payment'.state = "REJECTED")
  BY <1>1, <1>2
<1>9. /\ payment' \in Aggregate!PaymentRecord /\ payment'.queries <= MaxQueries
      /\ payment'.state \in Aggregate!Cleared /\ payment'.state = "SUBMITTED"
      /\ issues' = ValidatePacs008(Pacs008) /\ heard' \subseteq Meant /\ misread' = FALSE
  BY <1>1, <1>2, <1>3, <1>4
<1>10. QED
  BY <1>1, <1>2, <1>6, <1>7, <1>8, <1>9, StandingKeeps

\* A task enqueues its mail.
LEMMA PushKeeps == ASSUME ExchangeInv, Push PROVE ExchangeInv'
<1>1. /\ tasks # << >> /\ tasks' = Tail(tasks) /\ queue' = Append(queue, Head(tasks))
      /\ UNCHANGED <<setup, payment, reason, issues, outbox, ledger, sent, heard, misread, losses>>
  BY DEF Push
<1>2. payment # None /\ payment.state \in Aggregate!Cleared
  BY <1>1, MailIsStanding
<1>3. Books
  BY <1>2, StandingHolds
<1>4. Books'
  <2>1. tasks' \in Seq(Mail) /\ queue' \in Seq(Mail)
    BY <1>1, <1>3 DEF Books
  <2>2. QED
    BY <1>1, <1>3, <2>1, SettingsStay DEF Books
<1>5. sent' \in Seq(Traffic') /\ MessageIdentification' = MessageIdentification
  BY <1>1, <1>2, StandingHolds, SettingsStay
<1>6. \/ payment'.state = "SUBMITTED" /\ Len(sent') <= losses' + payment'.queries
      \/ /\ payment'.state # "SUBMITTED" /\ MessageIdentification' \in DOMAIN ledger'
         /\ Len(sent') <= losses' + (payment'.queries + 1)
  <2>1. \/ payment.state = "SUBMITTED" /\ Len(sent) <= losses + payment.queries
        \/ /\ payment.state # "SUBMITTED" /\ MessageIdentification \in DOMAIN ledger
           /\ Len(sent) <= losses + (payment.queries + 1)
    BY <1>2, StandingHolds
  <2>2. QED
    BY <1>1, <1>5, <2>1
<1>7. /\ setup \in Setups /\ Accepted
      /\ payment \in Aggregate!PaymentRecord /\ payment.queries <= MaxQueries
      /\ issues = ValidatePacs008(Pacs008)
      /\ outbox # None => outbox = Pacs008 /\ payment.state = "SUBMITTED"
      /\ reason \in Reason \cup {None} /\ (reason # None <=> payment.state = "REJECTED")
      /\ heard \subseteq Meant /\ misread = FALSE /\ losses \in 0..MaxLosses
  BY <1>2, StandingHolds
<1>8. QED
  BY <1>1, <1>2, <1>4, <1>5, <1>6, <1>7, StandingKeeps

\* An advice comes off the queue: it is always one the gateway can match.
LEMMA ReceiveKeeps == ASSUME ExchangeInv, Receive PROVE ExchangeInv'
<1> DEFINE e == Head(queue)
<1>1. /\ queue # << >> /\ queue' = Tail(queue)
      /\ UNCHANGED <<setup, issues, outbox, ledger, tasks, sent, losses>>
  BY DEF Receive
<1>2. payment # None /\ payment.state \in Aggregate!Cleared
  BY <1>1, MailIsStanding
<1>3. /\ setup \in Setups /\ Accepted /\ Books
      /\ payment \in Aggregate!PaymentRecord /\ payment.queries <= MaxQueries
      /\ issues = ValidatePacs008(Pacs008)
      /\ outbox # None => outbox = Pacs008 /\ payment.state = "SUBMITTED"
      /\ reason \in Reason \cup {None} /\ (reason # None <=> payment.state = "REJECTED")
      /\ heard \subseteq Meant /\ misread = FALSE /\ losses \in 0..MaxLosses
  BY <1>2, StandingHolds
<1>4. e \in Mail
  BY <1>1, <1>3 DEF Books
<1>5. Parses(e) /\ e.document \in Advices
  BY <1>3, <1>4, MailIsGood
<1>6. TakeAdvice(payment, e.document)
  <2>1. e.document.xmlns = "pacs.002.001.10"
    BY <1>5 DEF Advices, Pacs002Record
  <2>2. /\ e.document.transactions[1].original # None
        /\ e.document.transactions[1].original.messageId = MessageIdentification
    BY <1>5, MessageAssumption DEF Advices, IsAdvice
  <2>3. QED
    BY <1>5, <2>1, <2>2 DEF Receive
<1> HIDE DEF e
<1>7. /\ payment' \in Aggregate!PaymentRecord /\ payment'.queries = payment.queries
      /\ \/ payment'.state = payment.state
         \/ payment.state \in {"ACK_PENDING", "TIMEOUT_UNRESOLVED", "SETTLED"}
              /\ payment'.state \in {"SETTLED", "REJECTED"}
      /\ reason' \in Reason \cup {None}
      /\ reason' # None <=> payment'.state = "REJECTED"
      /\ heard' \subseteq Meant
      /\ misread' = misread
  BY <1>1, <1>3, <1>5, <1>6, AdviceIsTaken
<1>8. /\ payment'.state \in Aggregate!Cleared
      /\ payment'.state = "SUBMITTED" <=> payment.state = "SUBMITTED"
  BY <1>2, <1>7 DEF Aggregate!Cleared
<1>9. Books'
  <2>1. queue' \in Seq(Mail)
    BY <1>1, <1>3 DEF Books
  <2>2. QED
    BY <1>1, <1>3, <2>1, SettingsStay DEF Books
<1>10. sent' \in Seq(Traffic') /\ MessageIdentification' = MessageIdentification
  BY <1>1, <1>2, StandingHolds, SettingsStay
<1>11. \/ payment'.state = "SUBMITTED" /\ Len(sent') <= losses' + payment'.queries
       \/ /\ payment'.state # "SUBMITTED" /\ MessageIdentification' \in DOMAIN ledger'
          /\ Len(sent') <= losses' + (payment'.queries + 1)
  <2>1. \/ payment.state = "SUBMITTED" /\ Len(sent) <= losses + payment.queries
        \/ /\ payment.state # "SUBMITTED" /\ MessageIdentification \in DOMAIN ledger
           /\ Len(sent) <= losses + (payment.queries + 1)
    BY <1>2, StandingHolds
  <2>2. QED
    BY <1>1, <1>7, <1>8, <1>10, <2>1
<1>12. outbox' # None => outbox' = Pacs008 /\ payment'.state = "SUBMITTED"
  BY <1>1, <1>3, <1>8
<1>13. QED
  BY <1>1, <1>3, <1>7, <1>8, <1>9, <1>10, <1>11, <1>12, StandingKeeps

\* A timeout is declared of a payment that has been sent.
LEMMA DeclareTimeoutKeeps == ASSUME ExchangeInv, DeclareTimeout PROVE ExchangeInv'
<1>1. /\ payment # None /\ Aggregate!Legal(payment, Aggregate!TimeoutDeclared)
      /\ payment' = Aggregate!Apply(payment, Aggregate!TimeoutDeclared)
      /\ UNCHANGED <<setup, reason, issues, outbox, ledger, queue, tasks, sent, heard, misread, losses>>
  BY DEF DeclareTimeout, simVars
<1>2. payment \in Aggregate!PaymentRecord
  BY <1>1, PaymentThere
<1>3. /\ payment' \in Aggregate!PaymentRecord /\ payment'.state = "TIMEOUT_UNRESOLVED"
      /\ payment'.queries = payment.queries /\ payment.state = "ACK_PENDING"
  BY <1>1, <1>2, TimeoutMoves
<1>4. payment.state \in Aggregate!Cleared /\ payment'.state \in Aggregate!Cleared
  BY <1>3 DEF Aggregate!Cleared
<1>5. /\ setup \in Setups /\ Accepted /\ Books /\ payment.queries <= MaxQueries
      /\ issues = ValidatePacs008(Pacs008)
      /\ outbox # None => outbox = Pacs008 /\ payment.state = "SUBMITTED"
      /\ reason \in Reason \cup {None} /\ (reason # None <=> payment.state = "REJECTED")
      /\ heard \subseteq Meant /\ misread = FALSE /\ losses \in 0..MaxLosses
      /\ sent \in Seq(Traffic)
  BY <1>1, <1>4, StandingHolds
<1>6. MessageIdentification \in DOMAIN ledger /\ Len(sent) <= losses + (payment.queries + 1)
  BY <1>1, <1>3, <1>4, StandingHolds
<1>7. Books'
  BY <1>1, <1>5, SettingsStay DEF Books
<1>8. sent' \in Seq(Traffic') /\ MessageIdentification' \in DOMAIN ledger'
  BY <1>1, <1>5, <1>6, SettingsStay
<1>9. Len(sent') <= losses' + (payment'.queries + 1) /\ outbox' = None
  BY <1>1, <1>3, <1>5, <1>6
<1>10. QED
  BY <1>1, <1>3, <1>4, <1>5, <1>7, <1>8, <1>9, StandingKeeps

\* What is known when a query goes out.
LEMMA SendingQuery ==
  ASSUME ExchangeInv, SendQuery, setup' = setup
  PROVE  /\ payment.state = "TIMEOUT_UNRESOLVED" /\ payment.state \in Aggregate!Cleared
         /\ Asked \in Aggregate!PaymentRecord /\ Asked.state = payment.state
         /\ Asked.queries = payment.queries + 1 /\ Asked.queries <= MaxQueries
         /\ payment.queries \in Nat /\ outbox = None
         /\ LatestAdvice(Pacs028(Asked.queries)) \in Advices
         /\ Books' /\ MessageIdentification' \in DOMAIN ledger'
         /\ sent' \in Seq(Traffic') /\ Len(sent') <= losses + (payment.queries + 1) + 1
<1> DEFINE n == Asked.queries
<1>1. /\ payment # None /\ Aggregate!Legal(payment, Aggregate!QuerySent(0))
      /\ payment.queries < MaxQueries /\ HandlePacs028(Pacs028(n))
      /\ sent' = Append(sent, Asking(n))
  BY DEF SendQuery, Asking
<1>2. payment \in Aggregate!PaymentRecord /\ payment.queries \in Nat
  BY <1>1, PaymentThere
<1>3. /\ Asked \in Aggregate!PaymentRecord /\ Asked.state = payment.state
      /\ n = payment.queries + 1 /\ payment.state = "TIMEOUT_UNRESOLVED"
  BY <1>1, <1>2, QueryMoves DEF Asked
<1> HIDE DEF n
<1>4. payment.state \in Aggregate!Cleared
  BY <1>3 DEF Aggregate!Cleared
<1>5. n \in Nat /\ n \in 1..MaxQueries
  BY <1>1, <1>2, <1>3, ExchangeAssumption
<1>6. /\ setup \in Setups /\ Accepted /\ Books /\ MessageIdentification \in DOMAIN ledger
      /\ sent \in Seq(Traffic) /\ outbox = None
  BY <1>1, <1>3, <1>4, StandingHolds
<1>7. LatestAdvice(Pacs028(n)) \in Advices /\ Books' /\ UNCHANGED ledger
  BY <1>1, <1>5, <1>6, QueryIsHandled
<1>8. sent' \in Seq(Traffic') /\ Len(sent') = Len(sent) + 1
  <2>1. Asking(n) \in Traffic
    BY <1>5 DEF Traffic
  <2>2. QED
    BY <1>1, <1>6, <2>1, SettingsStay
<1>9. Len(sent) <= losses + (payment.queries + 1) /\ losses \in Nat /\ Len(sent) \in Nat
  BY <1>1, <1>3, <1>4, <1>6, StandingHolds
<1>10. Len(sent) + 1 <= losses + (payment.queries + 1) + 1
  BY <1>2, <1>9
<1>11. MessageIdentification' \in DOMAIN ledger'
  BY <1>6, <1>7, SettingsStay
<1>12. QED
  BY <1>2, <1>3, <1>4, <1>5, <1>6, <1>7, <1>8, <1>10, <1>11 DEF n

\* A query is answered, in the response or on the queue, and never refused.
LEMMA QueryKeeps == ASSUME ExchangeInv, Query PROVE ExchangeInv'
<1> DEFINE answer == LatestAdvice(Pacs028(Asked.queries))
<1>1. SendQuery /\ payment # None /\ UNCHANGED <<setup, issues, outbox, losses>>
  BY DEF Query, SendQuery
<1>2. /\ payment.state = "TIMEOUT_UNRESOLVED" /\ payment.state \in Aggregate!Cleared
      /\ Asked \in Aggregate!PaymentRecord /\ Asked.state = payment.state
      /\ Asked.queries = payment.queries + 1 /\ Asked.queries <= MaxQueries
      /\ payment.queries \in Nat /\ outbox = None /\ answer \in Advices
      /\ Books' /\ MessageIdentification' \in DOMAIN ledger'
      /\ sent' \in Seq(Traffic') /\ Len(sent') <= losses + (payment.queries + 1) + 1
  BY <1>1, SendingQuery
<1>3. /\ setup \in Setups /\ Accepted /\ issues = ValidatePacs008(Pacs008)
      /\ reason \in Reason \cup {None} /\ (reason # None <=> payment.state = "REJECTED")
      /\ heard \subseteq Meant /\ misread = FALSE /\ losses \in 0..MaxLosses /\ losses \in Nat
  BY <1>1, <1>2, StandingHolds
<1>4. IF ~OverMq /\ answer # None THEN TakeAdvice(Asked, answer)
      ELSE /\ payment' = Asked
           /\ misread' = (misread \/ answer = None)
           /\ UNCHANGED <<reason, heard>>
  BY DEF Query
<1>5. answer # None
  BY <1>2, AdvicesArePresent
<1> HIDE DEF answer
<1>6. /\ payment' \in Aggregate!PaymentRecord /\ payment'.queries = Asked.queries
      /\ payment'.state \in {"TIMEOUT_UNRESOLVED", "SETTLED", "REJECTED"}
      /\ reason' \in Reason \cup {None}
      /\ reason' # None <=> payment'.state = "REJECTED"
      /\ heard' \subseteq Meant /\ misread' = FALSE
  <2>1. CASE OverMq
    <3>1. payment' = Asked /\ UNCHANGED <<reason, heard>> /\ misread' = (misread \/ answer = None)
      BY <1>4, <2>1
    <3>2. misread' = FALSE
      BY <1>3, <1>5, <3>1
    <3>3. QED
      BY <1>2, <1>3, <3>1, <3>2
  <2>2. CASE ~OverMq
    <3>1. TakeAdvice(Asked, answer)
      BY <1>4, <1>5, <2>2
    <3>2. reason # None <=> Asked.state = "REJECTED"
      BY <1>2, <1>3
    <3>3. /\ payment' \in Aggregate!PaymentRecord /\ payment'.queries = Asked.queries
          /\ payment'.state = Asked.state \/ payment'.state \in {"SETTLED", "REJECTED"}
          /\ reason' \in Reason \cup {None}
          /\ reason' # None <=> payment'.state = "REJECTED"
          /\ heard' \subseteq Meant /\ misread' = misread
      BY <1>1, <1>2, <1>3, <3>1, <3>2, AdviceIsTaken
    <3>4. QED
      BY <1>2, <1>3, <3>3
  <2>3. QED
    BY <2>1, <2>2
<1>7. payment'.state \in Aggregate!Cleared /\ payment'.state # "SUBMITTED"
  BY <1>6 DEF Aggregate!Cleared
<1>8. Len(sent') <= losses' + (payment'.queries + 1)
  <2>1. losses + (payment.queries + 1) + 1 = losses + (payment.queries + 1 + 1)
    BY <1>2, <1>3
  <2>2. payment'.queries = payment.queries + 1 /\ losses' = losses
    BY <1>1, <1>2, <1>6
  <2>3. QED
    BY <1>2, <2>1, <2>2
<1>9. payment'.queries <= MaxQueries /\ outbox' = None
  BY <1>1, <1>2, <1>6
<1>10. losses' \in 0..MaxLosses /\ issues' = ValidatePacs008(Pacs008)
  BY <1>1, <1>3
<1>11. QED
  BY <1>1, <1>2, <1>3, <1>6, <1>7, <1>8, <1>9, <1>10, StandingKeeps

\* The query is recorded though its answer is lost.
LEMMA QueryUnansweredKeeps == ASSUME ExchangeInv, QueryUnanswered PROVE ExchangeInv'
<1>1. /\ SendQuery /\ payment # None /\ payment' = Asked
      /\ losses < MaxLosses /\ losses' = losses + 1
      /\ UNCHANGED <<setup, reason, issues, outbox, heard, misread>>
  BY DEF QueryUnanswered, SendQuery, Lose
<1>2. /\ payment.state = "TIMEOUT_UNRESOLVED" /\ payment.state \in Aggregate!Cleared
      /\ Asked \in Aggregate!PaymentRecord /\ Asked.state = payment.state
      /\ Asked.queries = payment.queries + 1 /\ Asked.queries <= MaxQueries
      /\ payment.queries \in Nat /\ outbox = None
      /\ Books' /\ MessageIdentification' \in DOMAIN ledger'
      /\ sent' \in Seq(Traffic') /\ Len(sent') <= losses + (payment.queries + 1) + 1
  BY <1>1, SendingQuery
<1>3. /\ setup \in Setups /\ Accepted /\ issues = ValidatePacs008(Pacs008)
      /\ reason \in Reason \cup {None} /\ (reason # None <=> payment.state = "REJECTED")
      /\ heard \subseteq Meant /\ misread = FALSE /\ losses \in 0..MaxLosses /\ losses \in Nat
      /\ sent \in Seq(Traffic) /\ Len(sent) <= losses + (payment.queries + 1)
  BY <1>1, <1>2, StandingHolds
<1>4. losses + 1 \in 0..MaxLosses
  BY <1>1, <1>3, ExchangeAssumption
<1>5. Len(sent') <= losses' + (payment'.queries + 1)
  <2>1. payment'.queries = payment.queries + 1 /\ losses' = losses + 1
    BY <1>1, <1>2
  <2> DEFINE k == losses + (payment.queries + 1) + 1
             l == losses + 1 + (payment.queries + 1 + 1)
  <2>2. k \in Nat /\ l \in Nat /\ k <= l
    BY <1>2, <1>3
  <2>3. Len(sent') \in Nat
    BY <1>2
  <2>4. Len(sent') <= k /\ losses' + (payment'.queries + 1) = l
    BY <1>2, <2>1
  <2> HIDE DEF k, l
  <2>5. QED
    BY <2>2, <2>3, <2>4
<1>6. /\ payment' \in Aggregate!PaymentRecord /\ payment'.queries <= MaxQueries
      /\ payment'.state \in Aggregate!Cleared /\ payment'.state = "TIMEOUT_UNRESOLVED"
      /\ issues' = ValidatePacs008(Pacs008) /\ heard' \subseteq Meant /\ misread' = FALSE
      /\ outbox' = None /\ losses' \in 0..MaxLosses
  BY <1>1, <1>2, <1>3, <1>4
<1>7. reason' \in Reason \cup {None} /\ (reason' # None <=> payment'.state = "REJECTED")
  BY <1>1, <1>2, <1>3
<1>8. QED
  BY <1>1, <1>2, <1>3, <1>5, <1>6, <1>7, StandingKeeps

\* A step that changes nothing keeps the invariant.
LEMMA StutterKeeps == ASSUME ExchangeInv, UNCHANGED vars PROVE ExchangeInv'
<1>1. UNCHANGED <<setup, payment, reason, issues, outbox, ledger, queue, tasks, sent, heard,
                  misread, losses>>
  BY DEF vars, simVars
<1>2. setup \in Setups
  BY DEF ExchangeInv, PaymentInv
<1>3. (OnRecord' <=> OnRecord) /\ (Standing' <=> Standing) /\ Recorded' = Recorded
  BY <1>1 DEF Standing, OnRecord, Recorded
<1>4. PaymentInv' /\ OutcomeInv'
  BY <1>1, <1>2, <1>3, PartsHold DEF ExchangeInv, PaymentInv, OutcomeInv
<1>5. WireInv'
  <2>1. Books'
    BY <1>1, SettingsStay DEF ExchangeInv, WireInv, Books
  <2>2. QED
    BY <1>1, <1>3, <2>1, SettingsStay DEF ExchangeInv, WireInv
<1>6. QED
  BY <1>4, <1>5 DEF ExchangeInv

-----------------------------------------------------------------------------
(* The theorems.                                                           *)

\* Every behaviour of the exchange keeps the inductive invariant.
THEOREM ExchangeInvariant == Spec => []ExchangeInv
<1>1. Init => ExchangeInv
  BY InitEstablishes
<1>2. ASSUME ExchangeInv, [Next]_vars PROVE ExchangeInv'
  <2>1. CASE Submit
    BY <1>2, <2>1, SubmitKeeps
  <2>2. CASE Publish
    BY <1>2, <2>2, PublishKeeps
  <2>3. CASE PublishUnanswered
    BY <1>2, <2>3, PublishUnansweredKeeps
  <2>4. CASE Push
    BY <1>2, <2>4, PushKeeps
  <2>5. CASE Receive
    BY <1>2, <2>5, ReceiveKeeps
  <2>6. CASE DeclareTimeout
    BY <1>2, <2>6, DeclareTimeoutKeeps
  <2>7. CASE Query
    BY <1>2, <2>7, QueryKeeps
  <2>8. CASE QueryUnanswered
    BY <1>2, <2>8, QueryUnansweredKeeps
  <2>9. CASE UNCHANGED vars
    BY <1>2, <2>9, StutterKeeps
  <2>10. QED
    BY <1>2, <2>1, <2>2, <2>3, <2>4, <2>5, <2>6, <2>7, <2>8, <2>9 DEF Next
<1>3. QED
  BY <1>1, <1>2, PTL DEF Spec

\* Types, and bounds: a payment with a message still to publish is SUBMITTED,
\* and each message sent is the one publication that succeeded, a query, or one
\* whose response was lost.
THEOREM ExchangeTypes == Spec => []TypeOK
<1>1. ASSUME ExchangeInv PROVE TypeOK
  <2>1. setup \in Setups /\ DOMAIN setup = SetupFields
    BY <1>1, ExchangeAssumption DEF ExchangeInv, PaymentInv
  <2>2. payment # None => payment \in Aggregate!PaymentRecord /\ payment.queries <= MaxQueries
    BY <1>1 DEF ExchangeInv, PaymentInv
  <2>3. outbox \in Pacs008Record \cup {None}
    BY <1>1, <2>1, TransferType DEF ExchangeInv, PaymentInv
  <2>4. outbox # None => payment # None /\ payment.state = "SUBMITTED"
    BY <1>1 DEF ExchangeInv, PaymentInv, Standing
  <2>5. DOMAIN ledger \subseteq {MessageIdentification}
        /\ \A id \in DOMAIN ledger : ledger[id] \in Seq(Advices)
    BY <1>1 DEF ExchangeInv, WireInv, Books
  <2>6. \A id \in DOMAIN ledger : ledger[id] \in Seq(Pacs002Record)
    <3>1. Advices \subseteq Pacs002Record
      BY DEF Advices
    <3>2. \A s \in Seq(Advices) : s \in Seq(Pacs002Record)
      BY <3>1
    <3>3. QED
      BY <2>5, <3>2
  <2>7. Len(sent) <= 1 + MaxQueries + MaxLosses
    <3>1. sent \in Seq(Traffic) /\ Len(sent) <= losses + Recorded /\ losses \in 0..MaxLosses
      BY <1>1 DEF ExchangeInv, WireInv
    <3>2. Recorded \in 0..(MaxQueries + 1)
      <4>1. MaxQueries \in Nat
        BY ExchangeAssumption
      <4>2. CASE payment = None
        BY <4>1, <4>2 DEF Recorded, OnRecord, Standing
      <4>3. CASE payment # None
        <5>1. payment.queries \in Nat /\ payment.queries <= MaxQueries
          BY <1>1, <2>2, <4>3, PaymentThere
        <5>2. Recorded \in {payment.queries + 1, payment.queries, 0}
          BY DEF Recorded
        <5>3. QED
          BY <4>1, <5>1, <5>2
      <4>4. QED
        BY <4>2, <4>3
    <3>3. MaxQueries \in Nat /\ MaxLosses \in Nat /\ Len(sent) \in Nat
      BY <3>1, ExchangeAssumption
    <3>4. QED
      BY <3>1, <3>2, <3>3
  <2>8. heard \subseteq Reports /\ misread \in BOOLEAN /\ reason \in Reason \cup {None}
    BY <1>1, <2>1, MeantIsReports DEF ExchangeInv, OutcomeInv
  <2>9. losses \in 0..MaxLosses
    BY <1>1 DEF ExchangeInv, WireInv
  <2>10. QED
    BY <2>1, <2>2, <2>3, <2>4, <2>5, <2>6, <2>7, <2>8, <2>9 DEF TypeOK
<1>2. QED
  BY <1>1, ExchangeInvariant, PTL

\* A payment gets past CREATED exactly when its request keeps every documented
\* limit, whatever the settings and the request: validate_pacs008 is neither
\* laxer nor stricter than the documentation.
THEOREM ExchangeAcceptance == Spec => []AcceptedWithinLimits
<1>1. ASSUME ExchangeInv PROVE AcceptedWithinLimits
  <2>1. SUFFICES ASSUME payment # None
                 PROVE  payment.state # "CREATED" <=> Defects = {}
    BY DEF AcceptedWithinLimits
  <2>2. setup \in Setups /\ (payment.state # "CREATED" <=> Accepted)
    BY <1>1, <2>1 DEF ExchangeInv, PaymentInv
  <2>3. ValidatePacs008(Pacs008) = SubmissionIssues /\ (SubmissionIssues = {} <=> Defects = {})
    BY <2>2, TransferIssues, DefectsAreNamed
  <2>4. QED
    BY <2>2, <2>3 DEF Accepted
<1>2. QED
  BY <1>1, ExchangeInvariant, PTL

\* A refused client is told of every defect, and of no other.
THEOREM ExchangeRefusal == Spec => []RefusalNamesEveryDefect
<1>1. ASSUME ExchangeInv PROVE RefusalNamesEveryDefect
  <2>1. SUFFICES ASSUME payment # None
                 PROVE  /\ \A part \in Defects : issues \cap NamedBy[part] # {}
                        /\ issues \subseteq UNION {NamedBy[part] : part \in Defects}
    BY DEF RefusalNamesEveryDefect
  <2>2. setup \in Setups /\ issues = ValidatePacs008(Pacs008)
    BY <1>1, <2>1 DEF ExchangeInv, PaymentInv
  <2>3. issues = SubmissionIssues
    BY <2>2, TransferIssues
  <2>4. QED
    BY <2>2, <2>3, DefectsAreNamed
<1>2. QED
  BY <1>1, ExchangeInvariant, PTL

\* Every document, envelope and header on the wire, in the queue and in the
\* ledger keeps the profile its reader checks it by, whatever is configured but
\* the length of the code of a rejection: that is all that can be wrong with it.
THEOREM ExchangeProfile == Spec => []TrafficKeepsTheProfile
<1>1. ASSUME ExchangeInv PROVE TrafficKeepsTheProfile
  <2>1. CASE Standing
    <3>1. setup \in Setups /\ Accepted
      BY <1>1, <2>1 DEF ExchangeInv, PaymentInv, Standing
    <3>2. /\ sent \in Seq(Traffic) /\ queue \in Seq(Mail)
          /\ \A id \in DOMAIN ledger : ledger[id] \in Seq(Advices)
      BY <1>1 DEF ExchangeInv, WireInv, Books
    <3>3. \A i \in DOMAIN sent : KeepsTheProfile(sent[i])
      <4>1. \A i \in DOMAIN sent : sent[i] \in Traffic
        BY <3>2
      <4>2. QED
        BY <3>1, <4>1, TrafficIsGood
    <3>4. \A i \in DOMAIN queue : Parses(queue[i]) /\ ValidateEnvelope(queue[i]) = ReasonFlaw
      <4>1. \A i \in DOMAIN queue : queue[i] \in Mail
        BY <3>2
      <4>2. QED
        BY <3>1, <4>1, MailIsGood
    <3>5. \A id \in DOMAIN ledger : \A i \in DOMAIN ledger[id] :
            ValidatePacs002Direction(ledger[id][i], "service") = ReasonFlaw
      <4>1. \A id \in DOMAIN ledger : \A i \in DOMAIN ledger[id] : ledger[id][i] \in Advices
        BY <3>2
      <4>2. QED
        BY <4>1 DEF Advices, IsAdvice
    <3>6. QED
      BY <3>3, <3>4, <3>5 DEF TrafficKeepsTheProfile
  <2>2. CASE ~Standing
    <3>1. ledger = << >> /\ queue = << >> /\ sent = << >>
      BY <1>1, <2>2 DEF ExchangeInv, WireInv
    <3>2. QED
      BY <3>1 DEF TrafficKeepsTheProfile
  <2>3. QED
    BY <2>1, <2>2
<1>2. QED
  BY <1>1, ExchangeInvariant, PTL

\* Every advice reaches its payment with the scenario's status and reason, no
\* query is refused, and a payment is REJECTED only with a reason.
THEOREM ExchangeDelivery == Spec => []AdviceReachesItsPayment
<1>1. ASSUME ExchangeInv PROVE AdviceReachesItsPayment
  <2>1. ~misread /\ heard \subseteq Meant
    BY <1>1 DEF ExchangeInv, OutcomeInv
  <2>2. payment # None => (payment.state = "REJECTED" <=> reason # None)
    BY <1>1 DEF ExchangeInv, OutcomeInv
  <2>3. QED
    BY <2>1, <2>2 DEF AdviceReachesItsPayment
<1>2. QED
  BY <1>1, ExchangeInvariant, PTL
=============================================================================

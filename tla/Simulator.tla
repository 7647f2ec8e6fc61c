----------------------------- MODULE Simulator -----------------------------
(***************************************************************************)
(* The far side of the southbound port as the repository ships it          *)
(* (simulator/src/lib.rs): a ledger of the advices each message id         *)
(* produced, and in MQ mode the participant's receive queue and the        *)
(* advices a spawned task will push later.  All of it is in memory.        *)
(*                                                                         *)
(* An advice is a pacs.002 reduced to the message id it refers to and its  *)
(* transaction status.  The transport the gateway is wired to, "http"      *)
(* (answers in the response) or "mq" (queue), is a parameter.              *)
(***************************************************************************)
EXTENDS Payment, Sequences

CONSTANTS
  MsgId,          \* message identification of each message, a function
  Scenario        \* scenario the simulator picks for each message, a function

Id == {MsgId[m] : m \in Message}

ScenarioType ==
  [action : {"settle", "timeout", "delay", "reject"}, followUp : {None}]
    \cup [action : {"awp"}, followUp : {None, "ACCC", "BLCK", "RJCT", "PDNG"}]

ASSUME SimulatorAssumption == \A m \in Message : Scenario[m] \in ScenarioType

VARIABLES
  ledger,         \* advices recorded for each message id, oldest first
  queue,          \* the participant's receive queue
  pushes          \* how many of each advice a spawned task has yet to enqueue

simVars == <<ledger, queue, pushes>>

AdviceMessage == [id : Id, status : AdviceStatus]

\* The types of the simulator's variables.
SimTypeOK ==
  /\ ledger \in [Id -> Seq(AdviceStatus)]
  /\ queue \in Seq(AdviceMessage)
  /\ pushes \in [AdviceMessage -> Nat]

SimInit ==
  /\ ledger = [id \in Id |-> << >>]
  /\ queue = << >>
  /\ pushes = [a \in AdviceMessage |-> 0]

-----------------------------------------------------------------------------
\* The ledger entry a pacs.008 produces: the final outcome whatever the sender
\* is told, then the follow-up of an acceptance without posting.
LedgerEntry(m) ==
  LET s == Scenario[m]
  IN  CASE s.action = "reject" -> <<"RJCT">>
        [] s.action = "awp" ->
             IF s.followUp = None THEN <<"ACWP">> ELSE <<"ACWP", s.followUp>>
        [] OTHER -> <<"ACSC">>

About(m, status) == [id |-> MsgId[m], status |-> status]

EnqueuedAtOnce(m) ==
  IF Scenario[m].action \in {"timeout", "delay"} THEN << >>
  ELSE <<About(m, Head(LedgerEntry(m)))>>

PushedLater(m) ==
  CASE Scenario[m].action = "delay" -> {About(m, "ACSC")}
    [] Scenario[m].followUp # None  -> {About(m, Scenario[m].followUp)}
    [] OTHER                        -> {}

\* A pacs.008 arrives.  The entry replaces whatever the id had before: the
\* simulator does not recognise a message it has already processed.
HandlePacs008(m, transport) ==
  /\ ledger' = [ledger EXCEPT ![MsgId[m]] = LedgerEntry(m)]
  /\ IF transport = "mq"
     THEN /\ queue' = queue \o EnqueuedAtOnce(m)
          /\ pushes' = [a \in AdviceMessage |->
                          IF a \in PushedLater(m) THEN pushes[a] + 1 ELSE pushes[a]]
     ELSE UNCHANGED <<queue, pushes>>

\* What the sender of that pacs.008 reads in the response: 202, or the advice.
\* A delayed answer is an answer read late.
ReplyToPacs008(m, transport) ==
  IF transport = "mq" \/ Scenario[m].action = "timeout" THEN "Accepted"
  ELSE Head(LedgerEntry(m))

Last(s) == s[Len(s)]

\* A pacs.028 arrives: the latest ledger entry, in the response or on the
\* queue; an unknown id is a 404.
HandlePacs028(id, transport) ==
  /\ UNCHANGED <<ledger, pushes>>
  /\ IF transport = "mq" /\ ledger[id] # << >>
     THEN queue' = Append(queue, [id |-> id, status |-> Last(ledger[id])])
     ELSE UNCHANGED queue

ReplyToPacs028(id, transport) ==
  IF ledger[id] = << >> THEN "Rejected"
  ELSE IF transport = "mq" THEN "Accepted"
  ELSE Last(ledger[id])

\* Destructive get of the receive queue.
HandleReceive ==
  /\ queue # << >>
  /\ queue' = Tail(queue)
  /\ UNCHANGED <<ledger, pushes>>

MutPushTwice(a) ==
  /\ pushes' = [pushes EXCEPT ![a] = @ - 1]
  /\ queue' = Append(queue, a)
  /\ UNCHANGED ledger

\* A task spawned for a delay or a follow-up wakes up.
Push(a) ==
  /\ pushes[a] > 0
  /\ pushes' = [pushes EXCEPT ![a] = @ - 1]
  /\ queue' = Append(queue, a)
  /\ UNCHANGED ledger

\* The process restarts: nothing survives.
SimRestart ==
  /\ ledger' = [id \in Id |-> << >>]
  /\ queue' = << >>
  /\ pushes' = [a \in AdviceMessage |-> 0]
=============================================================================

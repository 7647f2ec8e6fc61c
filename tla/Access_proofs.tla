--------------------------- MODULE Access_proofs ---------------------------
(***************************************************************************)
(* Proofs about access: whatever keys a gateway is given in each of its    *)
(* lives, and whatever clients ask, two people resolve what one submitted, *)
(* the actor on record is the key's, and only keys are answered.           *)
(***************************************************************************)
EXTENDS Access, TLAPS

\* Every life of the gateway has a configuration that was accepted.
AcceptedLives == \A i \in 1..Len(envs) : Accepted(envs[i])

\* What a request in progress carries is what the middleware found, in the life
\* that still goes on.
PendingJudged ==
  \A c \in Client :
    pending[c] # None =>
      /\ up
      /\ Judgement(Current, pending[c].request) = "pass"
      /\ pending[c].token = BearerToken(pending[c].request.headers)
      /\ pending[c].caller =
           IF Required(pending[c].request.method, pending[c].request.path) = "public"
           THEN NoCaller ELSE Identify(Current, pending[c].token)

\* Submissions are by full keys of the life they were made in.
SubmittedByFull ==
  \A k \in PaymentKey :
    payment[k].submittedBy # None =>
      /\ payment[k].submittedIn \in 1..Len(envs)
      /\ payment[k].submittedBy \in envs[payment[k].submittedIn].full

\* Resolutions are by operator keys of the life they were made in, under the
\* label each was given there.
ResolvedByOperator ==
  \A k \in PaymentKey :
    payment[k].resolvedBy # None =>
      /\ payment[k].resolvedIn \in 1..Len(envs)
      /\ \E i \in DOMAIN envs[payment[k].resolvedIn].operators :
           envs[payment[k].resolvedIn].operators[i] =
             [label |-> payment[k].actor, key |-> payment[k].resolvedBy]

\* A hold nobody resolved has no resolver: the gateway's own cancellation does
\* not overwrite an operator's name.
HeldIsUnresolved ==
  \A k \in PaymentKey : payment[k].state = "HELD" => payment[k].resolvedBy = None

AccessInv ==
  /\ TypeOK /\ AcceptedLives /\ PendingJudged
  /\ SubmittedByFull /\ ResolvedByOperator /\ HeldIsUnresolved
  /\ OnlyKeysAreAnswered

-----------------------------------------------------------------------------
(* What the middleware establishes.                                        *)

\* A key that identifies as full is a full key.
LEMMA FullIsFull ==
  ASSUME NEW env, NEW t, Identify(env, t).role = "full"
  PROVE  t \in env.full
BY AccessAssumption DEF Identify, NoCaller

\* A member of a sequence is one of what it is a sequence of.
LEMMA SeqElement ==
  ASSUME NEW S, NEW s \in Seq(S), NEW i \in DOMAIN s
  PROVE  s[i] \in S
OBVIOUS

\* A key that identifies as an operator is one, under the label found.
LEMMA OperatorIsOperator ==
  ASSUME NEW env \in Environment, Accepted(env), NEW t, Identify(env, t).role = "operator"
  PROVE  \E i \in DOMAIN env.operators :
           env.operators[i] = [label |-> Identify(env, t).label, key |-> t]
<1> DEFINE hits == {i \in DOMAIN env.operators : env.operators[i].key = t}
<1>1. t \notin env.full \cup env.readOnly /\ hits # {}
  BY AccessAssumption DEF Identify, NoCaller
<1>2. PICK i \in DOMAIN env.operators : env.operators[i].key = t
  BY <1>1
<1>3. env.operators \in Seq([label : Label, key : Token])
  BY AccessAssumption DEF EnvironmentType
<1>4. hits = {i}
  BY <1>2 DEF Accepted
<1>5. i \in Nat  BY <1>2, <1>3
<1>6. (CHOOSE j \in hits : \A l \in hits : l <= j) = i
  BY <1>4, <1>5
<1>7. Identify(env, t) = [role |-> "operator", label |-> env.operators[i].label]
  BY <1>1, <1>6 DEF Identify
<1>8. env.operators[i] \in [label : Label, key : Token]
  BY <1>2, <1>3, SeqElement
<1>9. env.operators[i] = [label |-> env.operators[i].label, key |-> env.operators[i].key]
  BY <1>8
<1> QED  BY <1>2, <1>7, <1>9

\* A key that identifies as anyone is configured.
LEMMA SomebodyIsConfigured ==
  ASSUME NEW env, NEW t, Identify(env, t) # NoCaller
  PROVE  t \in env.full \cup env.readOnly \cup OperatorKeys(env)
BY DEF Identify, NoCaller, OperatorKeys

\* What it means to pass on a route that is not public.
LEMMA PassMeans ==
  ASSUME NEW env, NEW r, Judgement(env, r) = "pass",
         Required(r.method, r.path) \in {"read", "write", "operate"}
  PROVE  /\ BearerToken(r.headers) # None
         /\ Identify(env, BearerToken(r.headers)) # NoCaller
         /\ May(Identify(env, BearerToken(r.headers)).role, Required(r.method, r.path))
BY DEF Judgement

\* The table, row by row.
LEMMA RouteRows ==
  ASSUME NEW r \in RouteTable
  PROVE
    \/ r = [method |-> "GET", path |-> "healthz", access |-> "public"]
    \/ r = [method |-> "POST", path |-> "payments", access |-> "write"]
    \/ r = [method |-> "GET", path |-> "payment", access |-> "read"]
    \/ r = [method |-> "POST", path |-> "release", access |-> "operate"]
    \/ r = [method |-> "POST", path |-> "cancel", access |-> "operate"]
    \/ r = [method |-> "POST", path |-> "reconcile", access |-> "write"]
    \/ r = [method |-> "GET", path |-> "summary", access |-> "read"]
BY DEF RouteTable

\* A path has one row, whose method is not HEAD and whose access is not public
\* unless it is the health probe's.
LEMMA RouteFacts ==
  ASSUME NEW r \in RouteTable
  PROVE  /\ r.method # "HEAD"
         /\ r.path # "unlisted"
         /\ r.path # "healthz" => r.access \in {"read", "write", "operate"}
BY RouteRows

\* No path has two rows in the route table.
LEMMA OneRowEach ==
  ASSUME NEW q \in RouteTable, NEW r \in RouteTable, q.path = r.path
  PROVE  q = r
<1>1. CASE r = [method |-> "GET", path |-> "healthz", access |-> "public"]
  BY <1>1, RouteRows
<1>2. CASE r = [method |-> "POST", path |-> "payments", access |-> "write"]
  BY <1>2, RouteRows
<1>3. CASE r = [method |-> "GET", path |-> "payment", access |-> "read"]
  BY <1>3, RouteRows
<1>4. CASE r = [method |-> "POST", path |-> "release", access |-> "operate"]
  BY <1>4, RouteRows
<1>5. CASE r = [method |-> "POST", path |-> "cancel", access |-> "operate"]
  BY <1>5, RouteRows
<1>6. CASE r = [method |-> "POST", path |-> "reconcile", access |-> "write"]
  BY <1>6, RouteRows
<1>7. CASE r = [method |-> "GET", path |-> "summary", access |-> "read"]
  BY <1>7, RouteRows
<1> QED  BY <1>1, <1>2, <1>3, <1>4, <1>5, <1>6, <1>7, RouteRows

\* A listed route needs what the table says.
LEMMA ListedRoute ==
  ASSUME NEW r \in RouteTable
  PROVE  Required(r.method, r.path) = r.access
<1>1. r.method # "HEAD"  BY RouteFacts
<1>2. \A q \in RouteTable : q.path = r.path => q = r  BY OneRowEach
<1>3. {q \in RouteTable : q.path = r.path /\ q.method = r.method} = {r}
  BY <1>2
<1>4. (CHOOSE q \in {r} : TRUE) = r  OBVIOUS
<1> QED  BY <1>1, <1>3, <1>4 DEF Required

\* Submitting, and any route nobody listed, needs a full key.
LEMMA WriteRoutes ==
  /\ Required("POST", "payments") = "write"
  /\ \A method : Required(method, "unlisted") = "write"
<1> DEFINE r == [method |-> "POST", path |-> "payments", access |-> "write"]
<1>1. r \in RouteTable  BY DEF RouteTable
<1>2. Required("POST", "payments") = "write"  BY <1>1, ListedRoute
<1>3. \A q \in RouteTable : q.path # "unlisted"  BY RouteFacts
<1>4. \A method : {q \in RouteTable : q.path = "unlisted" /\ q.method = method} = {}
  BY <1>3
<1>5. \A method : Required(method, "unlisted") = "write"
  BY <1>4 DEF Required
<1> QED  BY <1>2, <1>5

\* Resolving a hold needs an operator key.
LEMMA OperateRoutes ==
  /\ Required("POST", "release") = "operate"
  /\ Required("POST", "cancel") = "operate"
<1> DEFINE r == [method |-> "POST", path |-> "release", access |-> "operate"]
           c == [method |-> "POST", path |-> "cancel", access |-> "operate"]
<1>1. r \in RouteTable /\ c \in RouteTable  BY DEF RouteTable
<1> QED  BY <1>1, ListedRoute

\* Only the health probe is public.
LEMMA OnlyHealthIsPublic ==
  ASSUME NEW method, NEW path, path # "healthz"
  PROVE  Required(method, path) \in {"read", "write", "operate"}
<1> DEFINE judged == IF method = "HEAD" THEN "GET" ELSE method
           found  == {r \in RouteTable : r.path = path /\ r.method = judged}
<1>1. \A r \in RouteTable : r.path # "healthz" => r.access \in {"read", "write", "operate"}
  BY RouteFacts
<1>2. CASE found = {}
  BY <1>2 DEF Required
<1>3. CASE found # {}
  <2>1. (CHOOSE r \in found : TRUE) \in found  BY <1>3
  <2>2. (CHOOSE r \in found : TRUE).access \in {"read", "write", "operate"}
    BY <1>1, <2>1
  <2> QED  BY <1>3, <2>2 DEF Required
<1> QED  BY <1>2, <1>3

\* The configuration of the life that goes on is an accepted one.
LEMMA CurrentAccepted ==
  ASSUME TypeOK, AcceptedLives, up
  PROVE  /\ Life \in 1..Len(envs)
         /\ Current \in Environment
         /\ Accepted(Current)
<1>1. envs \in Seq(Environment) /\ envs # << >>
  BY DEF TypeOK
<1>2. Len(envs) \in Nat /\ Len(envs) # 0
  BY <1>1
<1>3. Life \in 1..Len(envs) /\ Life \in DOMAIN envs
  BY <1>1, <1>2 DEF Life
<1>4. Current \in Environment
  BY <1>1, <1>3, SeqElement DEF Current
<1> QED  BY <1>3, <1>4 DEF AcceptedLives, Current

\* Keys that pass to a route are of the tier it needs.
LEMMA WritersAreFull ==
  ASSUME NEW env, NEW r, Judgement(env, r) = "pass", Required(r.method, r.path) = "write"
  PROVE  BearerToken(r.headers) \in env.full
<1>1. May(Identify(env, BearerToken(r.headers)).role, "write")
  BY PassMeans
<1> QED  BY <1>1, FullIsFull DEF May

\* Who passes for an operation holds an operator key.
LEMMA OperatorsOperate ==
  ASSUME NEW env \in Environment, Accepted(env), NEW r,
         Judgement(env, r) = "pass", Required(r.method, r.path) = "operate"
  PROVE  \E i \in DOMAIN env.operators :
           env.operators[i] = [label |-> Identify(env, BearerToken(r.headers)).label,
                               key   |-> BearerToken(r.headers)]
<1>1. May(Identify(env, BearerToken(r.headers)).role, "operate")
  BY PassMeans
<1> QED  BY <1>1, OperatorIsOperator DEF May

\* Whoever passes on a route that is not public has a configured key.
LEMMA PassersAreConfigured ==
  ASSUME NEW env, NEW r, Judgement(env, r) = "pass", r.path # "healthz"
  PROVE  BearerToken(r.headers) \in env.full \cup env.readOnly \cup OperatorKeys(env)
<1>1. Required(r.method, r.path) \in {"read", "write", "operate"}
  BY OnlyHealthIsPublic
<1>2. Identify(env, BearerToken(r.headers)) # NoCaller
  BY <1>1, PassMeans
<1> QED  BY <1>2, SomebodyIsConfigured


\* What identify returns is a caller, or nobody.
LEMMA IdentifyType ==
  ASSUME NEW env \in Environment, Accepted(env), NEW t
  PROVE  Identify(env, t) \in CallerRecord \cup {NoCaller}
<1> DEFINE hits == {i \in DOMAIN env.operators : env.operators[i].key = t}
           label == env.operators[CHOOSE i \in hits : \A j \in hits : j <= i].label
<1>1. CASE t \in env.full
  <2>1. t \notin env.readOnly  BY <1>1 DEF Accepted
  <2>2. Identify(env, t) = [role |-> "full", label |-> None]
    BY <1>1, <2>1 DEF Identify
  <2> QED  BY <2>2 DEF CallerRecord, Role
<1>2. CASE t \in env.readOnly
  <2>1. t \notin env.full  BY <1>2 DEF Accepted
  <2>2. Identify(env, t) = [role |-> "read_only", label |-> None]
    BY <1>2, <2>1 DEF Identify
  <2> QED  BY <2>2 DEF CallerRecord, Role
<1>3. CASE t \notin env.full \cup env.readOnly /\ hits # {}
  <2>1. Identify(env, t) = [role |-> "operator", label |-> label]
    BY <1>3 DEF Identify
  <2>2. Identify(env, t).role = "operator" /\ Identify(env, t).label = label
    BY <2>1
  <2>3. PICK i \in DOMAIN env.operators :
          env.operators[i] = [label |-> Identify(env, t).label, key |-> t]
    BY <2>2, OperatorIsOperator
  <2>4. env.operators[i] \in [label : Label, key : Token]
    BY <2>3, SeqElement, AccessAssumption DEF EnvironmentType
  <2>5. Identify(env, t).label \in Label  BY <2>3, <2>4
  <2> QED  BY <2>1, <2>2, <2>5 DEF CallerRecord, Role
<1>4. CASE t \notin env.full \cup env.readOnly /\ hits = {}
  BY <1>4 DEF Identify
<1> QED  BY <1>1, <1>2, <1>3, <1>4

\* The token of a request is a token, if it has one.
LEMMA TokenType ==
  ASSUME NEW r \in Request
  PROVE  BearerToken(r.headers) \in Token \cup {None}
<1>1. r.headers \in Seq(Header)  BY DEF Request
<1>2. CASE Len(r.headers) = 1
  <2>1. r.headers[1] \in Header  BY <1>1, <1>2
  <2> QED  BY <2>1 DEF BearerToken, Header
<1>3. CASE Len(r.headers) # 1
  BY <1>3 DEF BearerToken
<1> QED  BY <1>2, <1>3

-----------------------------------------------------------------------------
(* Steps.                                                                  *)

\* A handler's answer leaves the other requests as they were judged.
LEMMA AnswerKeepsPending ==
  ASSUME TypeOK, PendingJudged, NEW c \in Client, NEW status \in Status,
         pending[c] # None, Answer(c, status)
  PROVE  /\ pending' \in [Client -> PendingRecord \cup {None}]
         /\ response' \in ResponseRecord
         /\ PendingJudged'
<1>1. envs' = envs /\ up' = up /\ pending' = [pending EXCEPT ![c] = None]
  BY DEF Answer
<1>2. Current' = Current  BY <1>1 DEF Current, Life
<1>3. pending \in [Client -> PendingRecord \cup {None}]  BY DEF TypeOK
<1>4. pending' \in [Client -> PendingRecord \cup {None}]
  BY <1>1, <1>3
<1>5. \A d \in Client : pending'[d] # None => pending'[d] = pending[d] /\ pending[d] # None
  BY <1>1, <1>3
<1>6. PendingJudged'
  BY <1>1, <1>2, <1>5 DEF PendingJudged
<1>7. pending[c] \in PendingRecord  BY <1>3
<1>8. pending[c].request \in Request /\ pending[c].token \in Token \cup {None}
  BY <1>7 DEF PendingRecord
<1>9. Life \in Nat  BY DEF TypeOK, Life
<1>10. response' \in ResponseRecord
  BY <1>8, <1>9 DEF Answer, Respond, ResponseRecord
<1> QED  BY <1>4, <1>6, <1>10

\* A handler's answer is to a key of that life, and what needs a full key has one.
LEMMA AnswerIsKeyed ==
  ASSUME TypeOK, AcceptedLives, PendingJudged, NEW c \in Client, NEW status,
         pending[c] # None, Answer(c, status),
         pending[c].request.path = "payments" => pending[c].request.method = "POST"
  PROVE  OnlyKeysAreAnswered'
<1> DEFINE r == pending[c].request
<1>1. /\ response' = [request |-> r, token |-> pending[c].token, status |-> status, life |-> Life]
      /\ envs' = envs
  BY DEF Answer, Respond
<1>2. /\ Judgement(Current, r) = "pass"
      /\ pending[c].token = BearerToken(r.headers)
  BY DEF PendingJudged
<1>3. r.path # "healthz" =>
        pending[c].token \in Current.full \cup Current.readOnly \cup OperatorKeys(Current)
  BY <1>2, PassersAreConfigured
<1>4. r.path \in {"payments", "unlisted"} => Required(r.method, r.path) = "write"
  BY WriteRoutes
<1>5. r.path \in {"payments", "unlisted"} => pending[c].token \in Current.full
  BY <1>2, <1>4, WritersAreFull
<1>6. /\ response'.request.path = r.path
      /\ response'.token = pending[c].token
      /\ envs'[response'.life] = Current
  BY <1>1 DEF Current
<1> QED  BY <1>3, <1>5, <1>6 DEF OnlyKeysAreAnswered

\* What was judged before stays true of payments that did not change.
LEMMA PaymentsUntouched ==
  ASSUME SubmittedByFull, ResolvedByOperator, HeldIsUnresolved, AcceptedLives,
         UNCHANGED <<envs, payment>>
  PROVE  /\ SubmittedByFull' /\ ResolvedByOperator'
         /\ HeldIsUnresolved' /\ AcceptedLives'
BY DEF SubmittedByFull, ResolvedByOperator, HeldIsUnresolved, AcceptedLives


\* A new life changes nothing of the earlier ones.
LEMMA StartStep ==
  ASSUME AccessInv, NEW env \in Environment, Start(env)
  PROVE  AccessInv'
<1> USE DEF AccessInv
<1>1. /\ envs' = Append(envs, env) /\ up' = TRUE /\ response' = None
      /\ payment' = payment /\ pending' = pending
      /\ ~up /\ Accepted(env)
  BY DEF Start, NoResponse
<1>2. envs \in Seq(Environment)  BY DEF TypeOK
<1>3. /\ envs' \in Seq(Environment) /\ envs' # << >>
      /\ Len(envs') = Len(envs) + 1
      /\ \A i \in 1..Len(envs) : envs'[i] = envs[i]
      /\ envs'[Len(envs')] = env
      /\ Len(envs) \in Nat
  BY <1>1, <1>2
<1>4. TypeOK'
  BY <1>1, <1>3 DEF TypeOK
<1>5. AcceptedLives'
  <2> SUFFICES ASSUME NEW i \in 1..Len(envs') PROVE Accepted(envs'[i])
    BY DEF AcceptedLives
  <2>1. CASE i = Len(envs')  BY <1>1, <1>3, <2>1
  <2>2. CASE i # Len(envs')
    <3>1. i \in 1..Len(envs)  BY <1>3, <2>2
    <3> QED  BY <1>3, <3>1 DEF AcceptedLives
  <2> QED  BY <2>1, <2>2
<1>6. PendingJudged'
  BY <1>1 DEF PendingJudged
<1>7. 1..Len(envs) \subseteq 1..Len(envs')  BY <1>3
<1>8. SubmittedByFull'
  BY <1>1, <1>3, <1>7 DEF SubmittedByFull
<1>9. ResolvedByOperator'
  <2> SUFFICES ASSUME NEW k \in PaymentKey, payment[k].resolvedBy # None
               PROVE  /\ payment[k].resolvedIn \in 1..Len(envs')
                      /\ \E i \in DOMAIN envs'[payment[k].resolvedIn].operators :
                           envs'[payment[k].resolvedIn].operators[i] =
                             [label |-> payment[k].actor, key |-> payment[k].resolvedBy]
    BY <1>1 DEF ResolvedByOperator
  <2>1. payment[k].resolvedIn \in 1..Len(envs)  BY DEF ResolvedByOperator
  <2>2. envs'[payment[k].resolvedIn] = envs[payment[k].resolvedIn]  BY <1>3, <2>1
  <2> QED  BY <1>7, <2>1, <2>2 DEF ResolvedByOperator
<1>10. HeldIsUnresolved' /\ OnlyKeysAreAnswered'
  BY <1>1 DEF HeldIsUnresolved, OnlyKeysAreAnswered
<1> QED  BY <1>4, <1>5, <1>6, <1>8, <1>9, <1>10

\* The gateway stops: requests in flight go unanswered.
LEMMA StopStep ==
  ASSUME AccessInv, Stop
  PROVE  AccessInv'
<1> USE DEF AccessInv
<1>1. /\ envs' = envs /\ up' = FALSE /\ response' = None
      /\ payment' = payment /\ pending' = [c \in Client |-> None]
  BY DEF Stop, NoResponse
<1>2. TypeOK'  BY <1>1 DEF TypeOK
<1>3. PendingJudged'  BY <1>1 DEF PendingJudged
<1>4. OnlyKeysAreAnswered'  BY <1>1 DEF OnlyKeysAreAnswered
<1> QED  BY <1>1, <1>2, <1>3, <1>4, PaymentsUntouched

\* A refusal says nothing of any payment.
LEMMA TurnAwayStep ==
  ASSUME AccessInv, NEW c \in Client, NEW r \in Asked, TurnAway(c, r)
  PROVE  AccessInv'
<1> USE DEF AccessInv
<1> DEFINE status == IF Judgement(Current, r) = "401" THEN 401 ELSE 403
<1>1. /\ envs' = envs /\ up' = up /\ payment' = payment /\ pending' = pending
      /\ response' = [request |-> r, token |-> BearerToken(r.headers),
                      status |-> status, life |-> Life]
      /\ status \in {401, 403}
  BY DEF TurnAway, Respond
<1> HIDE DEF status
<1>2. Current' = Current  BY <1>1 DEF Current, Life
<1>3. r \in Request  BY AskedAssumption
<1>4. BearerToken(r.headers) \in Token \cup {None}  BY <1>3, TokenType
<1>5. Life \in Nat  BY DEF TypeOK, Life
<1>6. response' \in ResponseRecord
  BY <1>1, <1>3, <1>4, <1>5 DEF ResponseRecord, Status
<1>7. TypeOK'  BY <1>1, <1>6 DEF TypeOK
<1>8. PendingJudged'  BY <1>1, <1>2 DEF PendingJudged
<1>9. OnlyKeysAreAnswered'  BY <1>1 DEF OnlyKeysAreAnswered
<1> QED  BY <1>1, <1>7, <1>8, <1>9, PaymentsUntouched

\* What passes is kept as it was judged.
LEMMA LetThroughStep ==
  ASSUME AccessInv, NEW c \in Client, NEW r \in Asked, LetThrough(c, r)
  PROVE  AccessInv'
<1> USE DEF AccessInv
<1> DEFINE token  == BearerToken(r.headers)
           caller == IF Required(r.method, r.path) = "public" THEN NoCaller
                     ELSE Identify(Current, token)
<1>1. /\ envs' = envs /\ up' = up /\ payment' = payment /\ response' = None
      /\ pending' = [pending EXCEPT ![c] = [request |-> r, token |-> token, caller |-> caller]]
      /\ up /\ Judgement(Current, r) = "pass"
  BY DEF LetThrough, NoResponse
<1>2. Current' = Current  BY <1>1 DEF Current, Life
<1>3. r \in Request  BY AskedAssumption
<1>4. token \in Token \cup {None}  BY <1>3, TokenType
<1>5. Current \in Environment /\ Accepted(Current)  BY <1>1, CurrentAccepted
<1>6. caller \in CallerRecord \cup {NoCaller}  BY <1>5, IdentifyType
<1>7. caller = IF Required(r.method, r.path) = "public" THEN NoCaller
               ELSE Identify(Current, token)
  OBVIOUS
<1>8. token = BearerToken(r.headers)  OBVIOUS
<1> HIDE DEF token, caller
<1>9. [request |-> r, token |-> token, caller |-> caller] \in PendingRecord
  BY <1>3, <1>4, <1>6 DEF PendingRecord
<1>10. pending \in [Client -> PendingRecord \cup {None}]  BY DEF TypeOK
<1>11. pending' \in [Client -> PendingRecord \cup {None}]
  BY <1>1, <1>9, <1>10
<1>12. TypeOK'  BY <1>1, <1>11 DEF TypeOK
<1>13. PendingJudged'
  <2> SUFFICES ASSUME NEW d \in Client, pending'[d] # None
               PROVE  /\ up'
                      /\ Judgement(Current', pending'[d].request) = "pass"
                      /\ pending'[d].token = BearerToken(pending'[d].request.headers)
                      /\ pending'[d].caller =
                           IF Required(pending'[d].request.method, pending'[d].request.path)
                                = "public"
                           THEN NoCaller ELSE Identify(Current', pending'[d].token)
    BY DEF PendingJudged
  <2>1. CASE d = c
    <3>1. pending'[d] = [request |-> r, token |-> token, caller |-> caller]
      BY <1>1, <1>10, <2>1
    <3> QED  BY <1>1, <1>2, <1>7, <1>8, <3>1
  <2>2. CASE d # c
    <3>1. pending'[d] = pending[d]  BY <1>1, <1>10, <2>2
    <3> QED  BY <1>1, <1>2, <3>1 DEF PendingJudged
  <2> QED  BY <2>1, <2>2
<1>14. OnlyKeysAreAnswered'  BY <1>1 DEF OnlyKeysAreAnswered
<1> QED  BY <1>1, <1>12, <1>13, <1>14, PaymentsUntouched


\* A handler that answers, and what it may do to the payments.
LEMMA AnsweredStep ==
  ASSUME AccessInv, NEW c \in Client, NEW status \in Status,
         pending[c] # None, Answer(c, status),
         pending[c].request.path = "payments" => pending[c].request.method = "POST",
         payment' \in [PaymentKey -> PaymentRecord],
         SubmittedByFull', ResolvedByOperator', HeldIsUnresolved'
  PROVE  AccessInv'
<1> USE DEF AccessInv
<1>1. envs' = envs /\ up' = up  BY DEF Answer
<1>2. /\ pending' \in [Client -> PendingRecord \cup {None}]
      /\ response' \in ResponseRecord
      /\ PendingJudged'
  BY AnswerKeepsPending
<1>3. TypeOK'  BY <1>1, <1>2 DEF TypeOK
<1>4. AcceptedLives'  BY <1>1 DEF AcceptedLives
<1>5. OnlyKeysAreAnswered'  BY AnswerIsKeyed
<1> QED  BY <1>2, <1>3, <1>4, <1>5

\* An answer that changes no payment.
LEMMA AnswerOnlyStep ==
  ASSUME AccessInv, NEW c \in Client, NEW status \in Status,
         pending[c] # None, Answer(c, status), payment' = payment,
         pending[c].request.path = "payments" => pending[c].request.method = "POST"
  PROVE  AccessInv'
<1>1. envs' = envs  BY DEF Answer
<1>2. SubmittedByFull' /\ ResolvedByOperator' /\ HeldIsUnresolved'
  BY <1>1, PaymentsUntouched DEF AccessInv
<1>3. payment' \in [PaymentKey -> PaymentRecord]  BY DEF AccessInv, TypeOK
<1> QED  BY <1>2, <1>3, AnsweredStep

\* A payment that gets a new record, whose submitter and resolver are keys.
LEMMA NewRecord ==
  ASSUME AccessInv, NEW k \in PaymentKey, NEW record \in PaymentRecord,
         payment' = [payment EXCEPT ![k] = record], envs' = envs,
         record.submittedBy # None =>
           /\ record.submittedIn \in 1..Len(envs)
           /\ record.submittedBy \in envs[record.submittedIn].full,
         record.resolvedBy # None =>
           /\ record.resolvedIn \in 1..Len(envs)
           /\ \E i \in DOMAIN envs[record.resolvedIn].operators :
                envs[record.resolvedIn].operators[i] =
                  [label |-> record.actor, key |-> record.resolvedBy],
         record.state = "HELD" => record.resolvedBy = None
  PROVE  /\ payment' \in [PaymentKey -> PaymentRecord]
         /\ SubmittedByFull' /\ ResolvedByOperator' /\ HeldIsUnresolved'
<1> USE DEF AccessInv
<1>1. payment \in [PaymentKey -> PaymentRecord]  BY DEF TypeOK
<1>2. payment' \in [PaymentKey -> PaymentRecord]  BY <1>1
<1>3. payment'[k] = record /\ \A j \in PaymentKey : j # k => payment'[j] = payment[j]
  BY <1>1
<1>4. SubmittedByFull'
  BY <1>3 DEF SubmittedByFull
<1>5. ResolvedByOperator'
  <2> SUFFICES ASSUME NEW j \in PaymentKey, payment'[j].resolvedBy # None
               PROVE  /\ payment'[j].resolvedIn \in 1..Len(envs)
                      /\ \E i \in DOMAIN envs[payment'[j].resolvedIn].operators :
                           envs[payment'[j].resolvedIn].operators[i] =
                             [label |-> payment'[j].actor, key |-> payment'[j].resolvedBy]
    BY DEF ResolvedByOperator
  <2>1. CASE j = k  BY <1>3, <2>1
  <2>2. CASE j # k
    <3>1. payment'[j] = payment[j]  BY <1>3, <2>2
    <3> QED  BY <3>1 DEF ResolvedByOperator
  <2> QED  BY <2>1, <2>2
<1>6. HeldIsUnresolved'  BY <1>3 DEF HeldIsUnresolved
<1> QED  BY <1>2, <1>4, <1>5, <1>6

\* What a request in progress says of the keys: the middleware's judgement still
\* holds when the handler acts.
LEMMA SubmitStep ==
  ASSUME AccessInv, NEW c \in Client, SubmitPayment(c)
  PROVE  AccessInv'
<1> USE DEF AccessInv
<1> DEFINE r == pending[c].request
           k == r.key
<1>1. pending[c] # None /\ r.path = "payments" /\ r.method = "POST"
  BY DEF SubmitPayment, Serves
<1>2. pending[c] \in PendingRecord  BY <1>1 DEF TypeOK
<1>3. r \in Request /\ pending[c].token \in Token \cup {None}  BY <1>2 DEF PendingRecord
<1>4. k \in PaymentKey  BY <1>3 DEF Request
<1>5. CASE payment[k].state # "none"
  <2>1. Answer(c, 200) /\ payment' = payment  BY <1>5 DEF SubmitPayment
  <2> QED  BY <1>1, <2>1, AnswerOnlyStep DEF Status
<1>6. CASE payment[k].state = "none"
  <2>1. PICK state \in {"INVALID", "REFUSED", "HELD", "SENT"} :
          /\ Answer(c, IF state = "INVALID" THEN 422 ELSE 200)
          /\ payment' = [payment EXCEPT ![k] =
                 [state |-> state, actor |-> None,
                  submittedBy |-> pending[c].token, submittedIn |-> Life,
                  resolvedBy |-> None, resolvedIn |-> 0]]
    BY <1>6 DEF SubmitPayment
  <2> DEFINE status == IF state = "INVALID" THEN 422 ELSE 200
             record == [state |-> state, actor |-> None, submittedBy |-> pending[c].token,
                        submittedIn |-> Life, resolvedBy |-> None, resolvedIn |-> 0]
  <2>3. /\ up /\ Judgement(Current, r) = "pass"
        /\ pending[c].token = BearerToken(r.headers)
    BY <1>1 DEF PendingJudged
  <2>4. /\ Life \in 1..Len(envs) /\ Life \in Nat
    BY <2>3, CurrentAccepted DEF Life
  <2>5. Required(r.method, r.path) = "write"  BY <1>1, WriteRoutes
  <2>6. pending[c].token \in envs[Life].full
    BY <2>3, <2>5, WritersAreFull DEF Current
  <2>7. record \in PaymentRecord  BY <1>3, <2>4 DEF PaymentRecord
  <2>8. envs' = envs  BY <2>1 DEF Answer
  <2>9. payment' = [payment EXCEPT ![k] = record]  BY <2>1
  <2>10. /\ record.submittedBy = pending[c].token /\ record.submittedIn = Life
         /\ record.resolvedBy = None
    OBVIOUS
  <2> HIDE DEF record, k, r
  <2>11. /\ payment' \in [PaymentKey -> PaymentRecord]
         /\ SubmittedByFull' /\ ResolvedByOperator' /\ HeldIsUnresolved'
    BY <1>4, <2>4, <2>6, <2>7, <2>8, <2>9, <2>10, NewRecord
  <2>12. status \in Status  BY DEF Status
  <2>13. Answer(c, status)  BY <2>1
  <2>14. pending[c].request.path = "payments" => pending[c].request.method = "POST"
    BY <1>1 DEF r
  <2> HIDE DEF status
  <2> QED  BY <1>1, <2>11, <2>12, <2>13, <2>14, AnsweredStep
<1> QED  BY <1>5, <1>6


\* A hold is resolved under the label of the key that passed.
LEMMA ResolveStep ==
  ASSUME AccessInv, NEW c \in Client,
         NEW path \in {"release", "cancel"}, NEW state \in {"SENT", "CANCELLED"},
         ResolveHold(c, path, state)
  PROVE  AccessInv'
<1> USE DEF AccessInv
<1> DEFINE r == pending[c].request
           k == r.key
           record == [state |-> state, actor |-> pending[c].caller.label,
                      submittedBy |-> payment[k].submittedBy,
                      submittedIn |-> payment[k].submittedIn,
                      resolvedBy |-> pending[c].token, resolvedIn |-> Life]
<1>1. /\ pending[c] # None /\ r.path = path /\ r.method = "POST"
      /\ Answer(c, 200)
  BY DEF ResolveHold, Serves
<1>2. pending[c] \in PendingRecord  BY <1>1 DEF TypeOK
<1>3. /\ r \in Request /\ pending[c].token \in Token \cup {None}
      /\ pending[c].caller \in CallerRecord \cup {NoCaller}
  BY <1>2 DEF PendingRecord
<1>4. k \in PaymentKey  BY <1>3 DEF Request
<1>5. payment[k] \in PaymentRecord  BY <1>4 DEF TypeOK
<1>6. payment' = [payment EXCEPT ![k] = record]
  BY <1>4 DEF ResolveHold, TypeOK
<1>7. /\ up /\ Judgement(Current, r) = "pass"
      /\ pending[c].token = BearerToken(r.headers)
      /\ pending[c].caller = IF Required(r.method, r.path) = "public"
                            THEN NoCaller ELSE Identify(Current, pending[c].token)
  BY <1>1 DEF PendingJudged
<1>8. /\ Life \in 1..Len(envs) /\ Life \in Nat
      /\ Current \in Environment /\ Accepted(Current)
  BY <1>7, CurrentAccepted DEF Life
<1>9. Required(r.method, r.path) = "operate"  BY <1>1, OperateRoutes
<1>10. pending[c].caller = Identify(Current, pending[c].token)
  BY <1>7, <1>9
<1>11. PICK i \in DOMAIN Current.operators :
         Current.operators[i] = [label |-> pending[c].caller.label, key |-> pending[c].token]
  BY <1>7, <1>8, <1>9, <1>10, OperatorsOperate
<1>12. Current.operators[i] \in [label : Label, key : Token]
  BY <1>8, <1>11, SeqElement, AccessAssumption DEF EnvironmentType
<1>13. pending[c].caller.label \in Label  BY <1>11, <1>12
<1>14. payment[k].submittedBy \in Token \cup {None} /\ payment[k].submittedIn \in Nat
  BY <1>5 DEF PaymentRecord
<1>15. record \in PaymentRecord
  BY <1>3, <1>8, <1>13, <1>14 DEF PaymentRecord
<1>16. /\ record.submittedBy = payment[k].submittedBy
       /\ record.submittedIn = payment[k].submittedIn
       /\ record.resolvedBy = pending[c].token /\ record.resolvedIn = Life
       /\ record.actor = pending[c].caller.label /\ record.state = state
  OBVIOUS
<1>17. envs' = envs  BY <1>1 DEF Answer
<1>18. record.submittedBy # None =>
         /\ record.submittedIn \in 1..Len(envs)
         /\ record.submittedBy \in envs[record.submittedIn].full
  BY <1>4, <1>16 DEF SubmittedByFull
<1>19. /\ record.resolvedIn \in 1..Len(envs)
       /\ envs[record.resolvedIn] = Current
       /\ envs[record.resolvedIn].operators[i] =
            [label |-> record.actor, key |-> record.resolvedBy]
  BY <1>8, <1>11, <1>16 DEF Current
<1>20. record.state # "HELD"  BY <1>16
<1>21. pending[c].request.path # "payments"  BY <1>1
<1> HIDE DEF record, k, r
<1>22. \E j \in DOMAIN envs[record.resolvedIn].operators :
         envs[record.resolvedIn].operators[j] =
           [label |-> record.actor, key |-> record.resolvedBy]
  BY <1>11, <1>19
<1>23. /\ payment' \in [PaymentKey -> PaymentRecord]
       /\ SubmittedByFull' /\ ResolvedByOperator' /\ HeldIsUnresolved'
  BY <1>4, <1>6, <1>15, <1>17, <1>18, <1>19, <1>20, <1>22, NewRecord
<1> QED  BY <1>1, <1>21, <1>23, AnsweredStep DEF Status

\* The gateway's own cancellation leaves a hold without a resolver.
LEMMA GatewayCancels ==
  ASSUME AccessInv, NEW k \in PaymentKey, payment[k].state = "HELD", envs' = envs,
         payment' = [payment EXCEPT ![k] = CancelledByGateway(@)]
  PROVE  /\ payment' \in [PaymentKey -> PaymentRecord]
         /\ SubmittedByFull' /\ ResolvedByOperator' /\ HeldIsUnresolved'
<1> USE DEF AccessInv
<1> DEFINE record == CancelledByGateway(payment[k])
<1>1. payment[k] \in PaymentRecord  BY DEF TypeOK
<1>2. /\ payment[k].submittedBy \in Token \cup {None} /\ payment[k].submittedIn \in Nat
      /\ payment[k].resolvedBy \in Token \cup {None} /\ payment[k].resolvedIn \in Nat
  BY <1>1 DEF PaymentRecord
<1>3. payment[k].resolvedBy = None  BY DEF HeldIsUnresolved
<1>4. record \in PaymentRecord  BY <1>2 DEF PaymentRecord, CancelledByGateway
<1>5. /\ record.submittedBy = payment[k].submittedBy
      /\ record.submittedIn = payment[k].submittedIn
      /\ record.resolvedBy = None /\ record.state = "CANCELLED"
  BY <1>3 DEF CancelledByGateway
<1>6. payment' = [payment EXCEPT ![k] = record]  BY DEF TypeOK
<1>7. record.submittedBy # None =>
        /\ record.submittedIn \in 1..Len(envs)
        /\ record.submittedBy \in envs[record.submittedIn].full
  BY <1>5 DEF SubmittedByFull
<1> HIDE DEF record
<1> QED  BY <1>4, <1>5, <1>6, <1>7, NewRecord

\* A release that comes too late cancels the hold as the gateway.
LEMMA ReleaseTooLateStep ==
  ASSUME AccessInv, NEW c \in Client, ReleaseTooLate(c)
  PROVE  AccessInv'
<1> USE DEF AccessInv
<1> DEFINE k == pending[c].request.key
<1>1. /\ pending[c] # None /\ pending[c].request.path = "release" /\ Answer(c, 409)
      /\ payment[k].state = "HELD"
      /\ payment' = [payment EXCEPT ![k] = CancelledByGateway(@)]
  BY DEF ReleaseTooLate, Serves
<1>2. pending[c] \in PendingRecord  BY <1>1 DEF TypeOK
<1>3. k \in PaymentKey  BY <1>2 DEF PendingRecord, Request
<1>4. envs' = envs  BY <1>1 DEF Answer
<1> HIDE DEF k
<1>5. /\ payment' \in [PaymentKey -> PaymentRecord]
      /\ SubmittedByFull' /\ ResolvedByOperator' /\ HeldIsUnresolved'
  BY <1>1, <1>3, <1>4, GatewayCancels
<1> QED  BY <1>1, <1>5, AnsweredStep DEF Status

\* So does the sweeper.
LEMMA ExpireStep ==
  ASSUME AccessInv, NEW k \in PaymentKey, ExpireHold(k)
  PROVE  AccessInv'
<1> USE DEF AccessInv
<1>1. /\ envs' = envs /\ up' = up /\ pending' = pending /\ response' = None
      /\ payment[k].state = "HELD"
      /\ payment' = [payment EXCEPT ![k] = CancelledByGateway(@)]
  BY DEF ExpireHold, NoResponse
<1>2. /\ payment' \in [PaymentKey -> PaymentRecord]
      /\ SubmittedByFull' /\ ResolvedByOperator' /\ HeldIsUnresolved'
  BY <1>1, GatewayCancels
<1>3. Current' = Current  BY <1>1 DEF Current, Life
<1>4. TypeOK' /\ PendingJudged'  BY <1>1, <1>2, <1>3 DEF TypeOK, PendingJudged
<1>5. AcceptedLives' /\ OnlyKeysAreAnswered'
  BY <1>1 DEF AcceptedLives, OnlyKeysAreAnswered
<1> QED  BY <1>2, <1>4, <1>5


\* The handlers that leave the payments alone.
LEMMA QuietHandlersStep ==
  ASSUME AccessInv, NEW c \in Client,
         SubmitWithoutKey(c) \/ ReadPayment(c) \/ ServeOther(c) \/ RefuseToResolve(c)
  PROVE  AccessInv'
<1>1. CASE SubmitWithoutKey(c)
  <2>1. /\ pending[c] # None /\ pending[c].request.method = "POST"
        /\ Answer(c, 400) /\ payment' = payment
    BY <1>1 DEF SubmitWithoutKey, Serves
  <2> QED  BY <2>1, AnswerOnlyStep DEF Status
<1>2. CASE ReadPayment(c)
  <2>1. pending[c] # None /\ pending[c].request.path # "payments" /\ payment' = payment
    BY <1>2 DEF ReadPayment, Serves
  <2>2. Answer(c, 404) \/ Answer(c, 200)  BY <1>2 DEF ReadPayment
  <2> QED  BY <2>1, <2>2, AnswerOnlyStep DEF Status
<1>3. CASE ServeOther(c)
  <2>1. /\ pending[c] # None /\ pending[c].request.path # "payments"
        /\ Answer(c, 200) /\ payment' = payment
    BY <1>3 DEF ServeOther, Serves
  <2> QED  BY <2>1, AnswerOnlyStep DEF Status
<1>4. CASE RefuseToResolve(c)
  <2> DEFINE state == payment[pending[c].request.key].state
  <2>1. pending[c] # None /\ pending[c].request.path # "payments" /\ payment' = payment
    BY <1>4 DEF RefuseToResolve, Serves
  <2> DEFINE status == IF state = "none" THEN 404 ELSE IF state # "HELD" THEN 409 ELSE 400
  <2>2. Answer(c, status)  BY <1>4 DEF RefuseToResolve
  <2>3. status \in Status  BY DEF Status
  <2> HIDE DEF status
  <2> QED  BY <2>1, <2>2, <2>3, AnswerOnlyStep
<1> QED  BY <1>1, <1>2, <1>3, <1>4

\* The invariant holds before the first start.
LEMMA AccessInit == Init => AccessInv
<1> SUFFICES ASSUME Init PROVE AccessInv  OBVIOUS
<1> USE DEF Init
<1>1. NoPayment \in PaymentRecord  BY DEF NoPayment, PaymentRecord
<1>2. TypeOK
  <2>1. envs \in Seq(Environment) /\ (up => envs # << >>)  OBVIOUS
  <2>2. payment \in [PaymentKey -> PaymentRecord]  BY <1>1
  <2>3. pending \in [Client -> PendingRecord \cup {None}]  OBVIOUS
  <2> QED  BY <2>1, <2>2, <2>3 DEF TypeOK
<1>3. \A k \in PaymentKey : /\ payment[k].submittedBy = None /\ payment[k].resolvedBy = None
                            /\ payment[k].state # "HELD"
  BY DEF NoPayment
<1>4. SubmittedByFull /\ ResolvedByOperator /\ HeldIsUnresolved
  BY <1>3 DEF SubmittedByFull, ResolvedByOperator, HeldIsUnresolved
<1>5. AcceptedLives /\ PendingJudged /\ OnlyKeysAreAnswered
  BY DEF AcceptedLives, PendingJudged, OnlyKeysAreAnswered
<1> QED  BY <1>2, <1>4, <1>5 DEF AccessInv

\* Every step keeps it.
LEMMA AccessStep == AccessInv /\ [Next]_vars => AccessInv'
<1> SUFFICES ASSUME AccessInv, [Next]_vars PROVE AccessInv'  OBVIOUS
<1>1. ASSUME NEW env \in Environment, Start(env) PROVE AccessInv'
  BY <1>1, StartStep
<1>2. CASE Stop  BY <1>2, StopStep
<1>3. ASSUME NEW c \in Client, Handle(c) PROVE AccessInv'
  <2>1. CASE SubmitPayment(c)  BY <2>1, SubmitStep
  <2>2. CASE ResolveHold(c, "release", "SENT")
    BY <2>2, ResolveStep
  <2>3. CASE ResolveHold(c, "cancel", "CANCELLED")
    BY <2>3, ResolveStep
  <2>4. CASE ReleaseTooLate(c)  BY <2>4, ReleaseTooLateStep
  <2>5. CASE SubmitWithoutKey(c) \/ ReadPayment(c) \/ ServeOther(c) \/ RefuseToResolve(c)
    BY <2>5, QuietHandlersStep
  <2> QED  BY <1>3, <2>1, <2>2, <2>3, <2>4, <2>5 DEF Handle
<1>4. ASSUME NEW c \in Client, NEW r \in Asked, TurnAway(c, r) \/ LetThrough(c, r)
      PROVE  AccessInv'
  BY <1>4, TurnAwayStep, LetThroughStep
<1>5. ASSUME NEW k \in PaymentKey, ExpireHold(k) PROVE AccessInv'
  BY <1>5, ExpireStep
<1>6. CASE UNCHANGED vars
  <2>1. Current' = Current  BY <1>6 DEF vars, Current, Life
  <2> QED
    BY <1>6, <2>1 DEF AccessInv, vars, TypeOK, AcceptedLives, PendingJudged,
       SubmittedByFull, ResolvedByOperator, HeldIsUnresolved, OnlyKeysAreAnswered
<1> QED  BY <1>1, <1>2, <1>3, <1>4, <1>5, <1>6 DEF Next

\* So it always holds.
LEMMA AccessInvHolds == Spec => []AccessInv
BY AccessInit, AccessStep, PTL DEF Spec

-----------------------------------------------------------------------------
(* Theorems.                                                               *)

\* Every variable keeps its type, whatever the keys, clients and restarts.
THEOREM AccessTypeCorrect == Spec => []TypeOK
<1>1. AccessInv => TypeOK  BY DEF AccessInv
<1> QED  BY <1>1, AccessInvHolds, PTL

\* Whoever submitted a payment does not resolve its hold in the same life of
\* the gateway: with_operators refuses keys shared across tiers, and the
\* middleware asks a full key for one and an operator's for the other.
THEOREM SeparationOfDutiesHolds == Spec => []SeparationOfDuties
<1>1. AccessInv => SeparationOfDuties
  <2> SUFFICES ASSUME AccessInv, NEW k \in PaymentKey,
                      payment[k].resolvedBy # None,
                      payment[k].resolvedBy = payment[k].submittedBy,
                      payment[k].resolvedIn = payment[k].submittedIn
               PROVE  FALSE
    BY DEF SeparationOfDuties
  <2> DEFINE life == payment[k].resolvedIn
             t == payment[k].resolvedBy
  <2>1. life \in 1..Len(envs) /\ t \in envs[life].full
    BY DEF AccessInv, SubmittedByFull
  <2>2. PICK i \in DOMAIN envs[life].operators :
          envs[life].operators[i] = [label |-> payment[k].actor, key |-> t]
    BY DEF AccessInv, ResolvedByOperator
  <2>3. t \in OperatorKeys(envs[life])
    BY <2>2 DEF OperatorKeys
  <2>4. Accepted(envs[life])
    BY <2>1 DEF AccessInv, AcceptedLives
  <2> QED  BY <2>1, <2>3, <2>4 DEF Accepted
<1> QED  BY <1>1, AccessInvHolds, PTL

\* The actor on record is the only label the key presented had, in the life the
\* hold was resolved in.
THEOREM ActorIsTheKeysHolds == Spec => []ActorIsTheKeys
<1>1. AccessInv => ActorIsTheKeys
  <2> SUFFICES ASSUME AccessInv, NEW k \in PaymentKey, payment[k].resolvedBy # None
               PROVE  LET operators == envs[payment[k].resolvedIn].operators
                          entries   == {i \in DOMAIN operators :
                                          operators[i].key = payment[k].resolvedBy}
                      IN  /\ entries # {}
                          /\ \A i \in entries : operators[i].label = payment[k].actor
    BY DEF ActorIsTheKeys
  <2> DEFINE operators == envs[payment[k].resolvedIn].operators
  <2>1. PICK i \in DOMAIN operators :
          operators[i] = [label |-> payment[k].actor, key |-> payment[k].resolvedBy]
    BY DEF AccessInv, ResolvedByOperator
  <2>2. Accepted(envs[payment[k].resolvedIn])
    BY DEF AccessInv, ResolvedByOperator, AcceptedLives
  <2>3. \A j \in DOMAIN operators : operators[j].key = payment[k].resolvedBy => j = i
    <3>1. \A j, l \in DOMAIN operators : j # l => operators[j].key # operators[l].key
      BY <2>2 DEF Accepted
    <3>2. operators[i].key = payment[k].resolvedBy
      BY <2>1
    <3> HIDE DEF operators
    <3> QED  BY <3>1, <3>2
  <2> QED  BY <2>1, <2>3
<1> QED  BY <1>1, AccessInvHolds, PTL

\* Nothing about a payment is told to a caller without a key.
THEOREM OnlyKeysAreAnsweredHolds == Spec => []OnlyKeysAreAnswered
<1>1. AccessInv => OnlyKeysAreAnswered  BY DEF AccessInv
<1> QED  BY <1>1, AccessInvHolds, PTL

=============================================================================

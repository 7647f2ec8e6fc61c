------------------------------- MODULE Access -------------------------------
(***************************************************************************)
(* Who may do what at the gateway's northbound side (gateway/src/auth.rs   *)
(* and the routes of http.rs): the key configurations a gateway starts     *)
(* with, the middleware that judges each request, and the handlers that    *)
(* act later, on another thread, under the name the middleware found.      *)
(*                                                                         *)
(* A key is one text; its digest stands for it.  A payment is reduced to   *)
(* what separation of duties is about: it may be held, and a hold is       *)
(* resolved by an operator or by the gateway itself.                       *)
(***************************************************************************)
EXTENDS Naturals, FiniteSets, Sequences

CONSTANTS
  Token,          \* texts presented or configured as keys
  Strong,         \* those of 32 or more visible ASCII characters
  Label,          \* operator labels
  ShortCode,      \* those that are short codes
  Environment,    \* the FEDNOW_GW_*API_KEYS settings a gateway meets
  Client,         \* callers with a request in progress
  Asked,          \* the requests they make
  PaymentKey,
  MaxStarts,      \* bound on starts of the gateway
  None

EnvironmentType ==
  [full : SUBSET Token, readOnly : SUBSET Token,
   operators : Seq([label : Label, key : Token])]

ASSUME AccessAssumption ==
  /\ Strong \subseteq Token /\ ShortCode \subseteq Label
  /\ Environment \subseteq EnvironmentType
  /\ MaxStarts \in Nat
  /\ None \notin Token \cup Label \cup {"full", "read_only", "operator"}

-----------------------------------------------------------------------------
(* Configuration.                                                          *)

OperatorKeys(env) == {env.operators[i].key : i \in DOMAIN env.operators}

\* from_lists and with_operators: anything else and the gateway does not start.
Accepted(env) ==
  /\ env.full # {}
  /\ env.full \cap env.readOnly = {}
  /\ OperatorKeys(env) \cap (env.full \cup env.readOnly) = {}
  /\ env.full \cup env.readOnly \cup OperatorKeys(env) \subseteq Strong
  /\ \A i \in DOMAIN env.operators : env.operators[i].label \in ShortCode
  /\ \A i, j \in DOMAIN env.operators :
       i # j => /\ env.operators[i].label # env.operators[j].label
                /\ env.operators[i].key # env.operators[j].key

Role == {"full", "read_only", "operator"}

CallerRecord == [role : Role, label : Label \cup {None}]

NoCaller == [role |-> None, label |-> None]

\* The index follows every entry behind the hit.
MutLabelOfLastEntry(env, token) ==
  LET hits == {i \in DOMAIN env.operators : env.operators[i].key = token}
  IN  CASE token \in env.full     -> [role |-> "full", label |-> None]
        [] token \in env.readOnly -> [role |-> "read_only", label |-> None]
        [] token \notin env.full \cup env.readOnly /\ hits # {} ->
             [role |-> "operator", label |-> env.operators[Len(env.operators)].label]
        [] OTHER -> NoCaller

\* identify: the tier of a presented key, and an operator's label.
Identify(env, token) ==
  LET hits == {i \in DOMAIN env.operators : env.operators[i].key = token}
  IN  CASE token \in env.full     -> [role |-> "full", label |-> None]
        [] token \in env.readOnly -> [role |-> "read_only", label |-> None]
        [] token \notin env.full \cup env.readOnly /\ hits # {} ->
             [role |-> "operator",
              label |-> env.operators[CHOOSE i \in hits : \A j \in hits : j <= i].label]
        [] OTHER -> NoCaller

MutFullMayOperate(role, access) ==
  CASE access \in {"public", "read"} -> TRUE
    [] access = "write"              -> role = "full"
    [] access = "operate"            -> role \in {"full", "operator"}

May(role, access) ==
  CASE access \in {"public", "read"} -> TRUE
    [] access = "write"              -> role = "full"
    [] access = "operate"            -> role = "operator"

-----------------------------------------------------------------------------
(* Routes.                                                                 *)

\* A path goes by a name: "payment" is /payments/{key}, "release", "cancel" and
\* "reconcile" are the ones below it, "summary" is /ops/summary.
RouteTable ==
  {[method |-> "GET",  path |-> "healthz",   access |-> "public"],
   [method |-> "POST", path |-> "payments",  access |-> "write"],
   [method |-> "GET",  path |-> "payment",   access |-> "read"],
   [method |-> "POST", path |-> "release",   access |-> "operate"],
   [method |-> "POST", path |-> "cancel",    access |-> "operate"],
   [method |-> "POST", path |-> "reconcile", access |-> "write"],
   [method |-> "GET",  path |-> "summary",   access |-> "read"]}

\* "unlisted": a route somebody adds to the router and not to the table.
Path == {r.path : r \in RouteTable} \cup {"unlisted"}

MutUnlistedIsRead(method, path) ==
  LET judged == IF method = "HEAD" THEN "GET" ELSE method
      found  == {r \in RouteTable : r.path = path /\ r.method = judged}
  IN  IF found = {} THEN "read" ELSE (CHOOSE r \in found : TRUE).access

\* HEAD is judged as GET; a route missing from the table needs a full key.
Required(method, path) ==
  LET judged == IF method = "HEAD" THEN "GET" ELSE method
      found  == {r \in RouteTable : r.path = path /\ r.method = judged}
  IN  IF found = {} THEN "write" ELSE (CHOOSE r \in found : TRUE).access

Header == [scheme : {"bearer", "basic"}, token : Token]

\* reason: whether the reason of a release or cancel is a short code.
Request ==
  [method : {"GET", "HEAD", "POST"}, path : Path, key : PaymentKey,
   headers : Seq(Header), reason : BOOLEAN]

ASSUME AskedAssumption == Asked \subseteq Request

\* Exactly one Authorization header, of the bearer scheme.
BearerToken(headers) ==
  IF Len(headers) = 1 /\ headers[1].scheme = "bearer" THEN headers[1].token ELSE None

-----------------------------------------------------------------------------
VARIABLES
  envs,           \* the configurations of the gateway's lives so far
  up,             \* whether the gateway runs, with the last of them
  payment,        \* what is recorded of each payment, and by whom
  pending,        \* each client's request that passed the middleware
  response        \* what the last step answered, if it answered

vars == <<envs, up, payment, pending, response>>

\* state: "none" unknown, "INVALID" created and rejected by validation, "SENT"
\* any state behind the outbox.  actor is what the event history records; the
\* rest is history: which token acted, and in which life of the gateway.
PaymentRecord ==
  [state : {"none", "INVALID", "REFUSED", "HELD", "SENT", "CANCELLED"},
   actor : Label \cup {"gateway", None},
   submittedBy : Token \cup {None}, submittedIn : Nat,
   resolvedBy  : Token \cup {None}, resolvedIn  : Nat]

NoPayment == [state |-> "none", actor |-> None, submittedBy |-> None,
              submittedIn |-> 0, resolvedBy |-> None, resolvedIn |-> 0]

\* token and granted are history: what the client presented and what that was
\* when it was judged.
PendingRecord ==
  [request : Request, caller : CallerRecord \cup {NoCaller}, token : Token \cup {None}]

Status == {200, 400, 401, 403, 404, 409, 422}

ResponseRecord == [request : Request, token : Token \cup {None}, status : Status, life : Nat]

\* The types of every variable.
TypeOK ==
  /\ envs \in Seq(Environment)
  /\ up \in BOOLEAN /\ (up => envs # << >>)
  /\ payment \in [PaymentKey -> PaymentRecord]
  /\ pending \in [Client -> PendingRecord \cup {None}]
  /\ response \in ResponseRecord \cup {None}

Init ==
  /\ envs = << >>
  /\ up = FALSE
  /\ payment = [k \in PaymentKey |-> NoPayment]
  /\ pending = [c \in Client |-> None]
  /\ response = None

Life == Len(envs)

Current == envs[Life]

Respond(r, token, status) ==
  response' = [request |-> r, token |-> token, status |-> status, life |-> Life]

NoResponse == response' = None

-----------------------------------------------------------------------------
(* The process.                                                            *)

\* Credentials come first: no store, sweeper or port without them.
Start(env) ==
  /\ ~up /\ Life < MaxStarts
  /\ Accepted(env)
  /\ envs' = Append(envs, env)
  /\ up' = TRUE
  /\ NoResponse
  /\ UNCHANGED <<payment, pending>>

\* The process ends; requests in progress are never answered.
Stop ==
  /\ up
  /\ up' = FALSE
  /\ pending' = [c \in Client |-> None]
  /\ NoResponse
  /\ UNCHANGED <<envs, payment>>

-----------------------------------------------------------------------------
(* The middleware.                                                         *)

\* The judgement of a request: "pass", or the status it is refused with.
Judgement(env, r) ==
  LET access == Required(r.method, r.path)
      token  == BearerToken(r.headers)
  IN  CASE access = "public"                                    -> "pass"
        [] access # "public" /\ token = None                    -> "401"
        [] access # "public" /\ token # None
             /\ Identify(env, token) = NoCaller                 -> "401"
        [] access # "public" /\ token # None
             /\ Identify(env, token) # NoCaller                 ->
             IF May(Identify(env, token).role, access) THEN "pass" ELSE "403"

TurnAway(c, r) ==
  /\ up /\ pending[c] = None
  /\ Judgement(Current, r) # "pass"
  /\ Respond(r, BearerToken(r.headers),
             IF Judgement(Current, r) = "401" THEN 401 ELSE 403)
  /\ UNCHANGED <<envs, up, payment, pending>>

LetThrough(c, r) ==
  /\ up /\ pending[c] = None
  /\ Judgement(Current, r) = "pass"
  /\ pending' = [pending EXCEPT ![c] =
       [request |-> r, token |-> BearerToken(r.headers),
        caller  |-> IF Required(r.method, r.path) = "public" THEN NoCaller
                    ELSE Identify(Current, BearerToken(r.headers))]]
  /\ NoResponse
  /\ UNCHANGED <<envs, up, payment>>

-----------------------------------------------------------------------------
(* The handlers, on a thread of their own once the request was let through. *)

Serves(c, method, path) ==
  /\ pending[c] # None
  /\ pending[c].request.path = path
  /\ pending[c].request.method \in (IF method = "GET" THEN {"GET", "HEAD"} ELSE {method})

Answer(c, status) ==
  /\ Respond(pending[c].request, pending[c].token, status)
  /\ pending' = [pending EXCEPT ![c] = None]
  /\ UNCHANGED <<envs, up>>

\* submit_payment: a known key is answered with the payment as it stands; an
\* invalid one is created all the same.
SubmitPayment(c) ==
  LET k == pending[c].request.key
  IN  /\ Serves(c, "POST", "payments")
      /\ IF payment[k].state # "none"
         THEN Answer(c, 200) /\ UNCHANGED payment
         ELSE \E state \in {"INVALID", "REFUSED", "HELD", "SENT"} :
                /\ Answer(c, IF state = "INVALID" THEN 422 ELSE 200)
                /\ payment' = [payment EXCEPT ![k] =
                     [state |-> state, actor |-> None,
                      submittedBy |-> pending[c].token, submittedIn |-> Life,
                      resolvedBy |-> None, resolvedIn |-> 0]]

\* Without the Idempotency-Key header nothing is submitted.
SubmitWithoutKey(c) ==
  /\ Serves(c, "POST", "payments")
  /\ Answer(c, 400)
  /\ UNCHANGED payment

\* get_payment and reconcile_payment, as far as access is concerned.
ReadPayment(c) ==
  /\ Serves(c, "GET", "payment") \/ Serves(c, "POST", "reconcile")
  /\ Answer(c, IF payment[pending[c].request.key].state = "none" THEN 404 ELSE 200)
  /\ UNCHANGED payment

\* healthz, ops_summary, and whatever an unlisted route does for a full key.
ServeOther(c) ==
  /\ \/ Serves(c, "GET", "healthz") \/ Serves(c, "GET", "summary")
     \/ Serves(c, "GET", "unlisted")
  /\ Answer(c, 200)
  /\ UNCHANGED payment

MutActorWithoutLabel(c, path, state) ==
  LET k == pending[c].request.key
  IN  /\ Serves(c, "POST", path)
      /\ payment[k].state = "HELD" /\ pending[c].request.reason
      /\ Answer(c, 200)
      /\ payment' = [payment EXCEPT ![k] =
           [state |-> state, actor |-> pending[c].caller.role,
            submittedBy |-> @.submittedBy, submittedIn |-> @.submittedIn,
            resolvedBy |-> pending[c].token, resolvedIn |-> Life]]

\* release and cancel: the payment first, then its state, then the reason.
\* Who resolved it comes from the credential.
ResolveHold(c, path, state) ==
  LET k == pending[c].request.key
  IN  /\ Serves(c, "POST", path)
      /\ payment[k].state = "HELD" /\ pending[c].request.reason
      /\ Answer(c, 200)
      /\ payment' = [payment EXCEPT ![k] =
           [state |-> state, actor |-> pending[c].caller.label,
            submittedBy |-> @.submittedBy, submittedIn |-> @.submittedIn,
            resolvedBy |-> pending[c].token, resolvedIn |-> Life]]

RefuseToResolve(c) ==
  LET state == payment[pending[c].request.key].state
  IN  /\ \/ Serves(c, "POST", "release")
         \/ Serves(c, "POST", "cancel")
      /\ state # "HELD" \/ ~pending[c].request.reason
      /\ Answer(c, IF state = "none" THEN 404 ELSE IF state # "HELD" THEN 409 ELSE 400)
      /\ UNCHANGED payment

CancelledByGateway(p) ==
  [state |-> "CANCELLED", actor |-> "gateway",
   submittedBy |-> p.submittedBy, submittedIn |-> p.submittedIn,
   resolvedBy |-> p.resolvedBy, resolvedIn |-> p.resolvedIn]

\* A release that comes too late cancels the hold on the gateway's behalf.
ReleaseTooLate(c) ==
  LET k == pending[c].request.key
  IN  /\ Serves(c, "POST", "release")
      /\ payment[k].state = "HELD" /\ pending[c].request.reason
      /\ Answer(c, 409)
      /\ payment' = [payment EXCEPT ![k] = CancelledByGateway(@)]

\* The sweeper cancels an overdue hold.
ExpireHold(k) ==
  /\ up /\ payment[k].state = "HELD"
  /\ payment' = [payment EXCEPT ![k] = CancelledByGateway(@)]
  /\ NoResponse
  /\ UNCHANGED <<envs, up, pending>>

-----------------------------------------------------------------------------
Handle(c) ==
  \/ SubmitPayment(c) \/ SubmitWithoutKey(c) \/ ReadPayment(c) \/ ServeOther(c)
  \/ ResolveHold(c, "release", "SENT")
  \/ ResolveHold(c, "cancel", "CANCELLED")
  \/ RefuseToResolve(c) \/ ReleaseTooLate(c)

Next ==
  \/ \E env \in Environment : Start(env)
  \/ Stop
  \/ \E c \in Client : Handle(c) \/ \E r \in Asked : TurnAway(c, r) \/ LetThrough(c, r)
  \/ \E k \in PaymentKey : ExpireHold(k)

Spec == Init /\ [][Next]_vars

-----------------------------------------------------------------------------
(* Properties.                                                             *)

\* Two people: whoever submitted a payment does not resolve its hold, unless
\* the keys were configured anew in between (auth.rs, "Separation of duties").
SeparationOfDuties ==
  \A k \in PaymentKey :
    payment[k].resolvedBy # None /\ payment[k].resolvedBy = payment[k].submittedBy
      => payment[k].resolvedIn # payment[k].submittedIn

\* The actor on record is the label of the key that was presented, the only
\* label it had when the hold was resolved: no rotation, race, restart or key
\* shared by two people puts another operator's name there, and no resolution is
\* left without a name.
ActorIsTheKeys ==
  \A k \in PaymentKey :
    payment[k].resolvedBy # None =>
      LET operators == envs[payment[k].resolvedIn].operators
          entries   == {i \in DOMAIN operators : operators[i].key = payment[k].resolvedBy}
      IN  /\ entries # {}
          /\ \A i \in entries : operators[i].label = payment[k].actor

\* Whether a payment exists, is held or was resolved is told only to callers
\* with a key of that life of the gateway, and only a full key learns what a
\* route nobody listed has to say.
OnlyKeysAreAnswered ==
  LET a   == response
      env == envs[a.life]
  IN  a # None /\ a.status \notin {401, 403} /\ a.request.path # "healthz" =>
        /\ a.token \in env.full \cup env.readOnly \cup OperatorKeys(env)
        /\ a.request.path \in {"payments", "unlisted"} => a.token \in env.full
=============================================================================

----------------------------- MODULE MCAccess -----------------------------
(* An instance of Access for TLC: three keys that are strong enough, one   *)
(* that is not, and keys that change tiers from one life to the next.      *)
EXTENDS Access, TLC

Symmetric == Permutations(Client)

Entry(label, key) == [label |-> label, key |-> key]

\* The last four are refused: a key in two tiers, an operator key twice, no
\* full-access key, a label that is no short code.
MCEnvironment ==
  {[full |-> {"a"}, readOnly |-> {"r"}, operators |-> <<Entry("ann", "b"), Entry("bob", "c")>>],
   [full |-> {"a", "b"}, readOnly |-> {}, operators |-> <<Entry("ann", "c")>>],
   [full |-> {"c"}, readOnly |-> {"b"}, operators |-> <<Entry("bob", "a")>>],
   [full |-> {"a"}, readOnly |-> {}, operators |-> << >>],
   [full |-> {"a"}, readOnly |-> {}, operators |-> <<Entry("ann", "a")>>],
   [full |-> {"a"}, readOnly |-> {}, operators |-> <<Entry("ann", "b"), Entry("bob", "b")>>],
   [full |-> {}, readOnly |-> {"r"}, operators |-> <<Entry("ann", "b")>>],
   [full |-> {"a"}, readOnly |-> {}, operators |-> <<Entry("4111111", "b")>>]}

Bearer(t) == <<[scheme |-> "bearer", token |-> t]>>

Call(method, path, headers, reason) ==
  [method |-> method, path |-> path, key |-> "p1", headers |-> headers, reason |-> reason]

MCAsked ==
  {Call("POST", path, Bearer(t), TRUE) :
     path \in {"payments", "release", "cancel"},
     t \in {"a", "b", "c"}}
  \cup {Call("POST", "release", Bearer("b"), FALSE),
        Call("POST", "reconcile", Bearer("b"), TRUE),
        Call("GET", "payment", << >>, TRUE),
        Call("HEAD", "payment", Bearer("r"), TRUE),
        Call("GET", "payment", Bearer("weak"), TRUE),
        Call("GET", "unlisted", Bearer("r"), TRUE),
        Call("GET", "unlisted", Bearer("a"), TRUE),
        Call("GET", "summary", Bearer("r"), TRUE),
        Call("GET", "healthz", << >>, TRUE),
        Call("GET", "payment", Bearer("a") \o Bearer("a"), TRUE)}
=============================================================================

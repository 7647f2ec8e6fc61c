\* One payment under each deployment: over MQ and over HTTP with lost exchanges,
\* refusals, crashes and restarts, and with a risk check that may hold.
CONSTANTS
  Key = {k1}
  Plays = {"settle", "timeout", "reject", "awpAccc", "awpRjct", "invalid"}
  Message <- MCMessage
  Sha256 <- MCSha256
  MsgId <- MCMsgId
  Scenario <- MCScenario
  Invalid <- MCInvalid
  Deployments <- MCOne
  None = None
  Sweeper = sweeper
  Handler = {h1, h2}
  Time = {0, 1, 2}
  Advice = {"ACSC", "ACCC", "ACWP", "RJCT", "PDNG"}
  TimeoutSecs = 0
  BackoffSecs = 0
  HoldMaxAge = 1
  MaxQueries = 2
  MaxArrivals = 2
SPECIFICATION Spec
SYMMETRY Symmetric
INVARIANTS
  TypeOK
  OnlyClearedReachTheWire
  SendsWhatWasAccepted
  PublishedMeansArrived
  UnpublishedIsSubmitted
  OutcomeIsTheServices
  HoldsEndInTime
PROPERTIES
  ImplementsStore
  OutcomesAreFinal

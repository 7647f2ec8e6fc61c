\* Two payments share the outbox, the queue and the sweeper; threads are fair.
CONSTANTS
  Key = {k1, k2}
  Plays = {"settle", "reject"}
  Message <- MCMessage
  Sha256 <- MCSha256
  MsgId <- MCMsgId
  Scenario <- MCScenario
  Invalid <- MCInvalid
  Deployments <- MCTwo
  None = None
  Sweeper = sweeper
  Handler = {h1}
  Time = {0}
  Advice = {"ACSC", "ACCC", "ACWP", "RJCT", "PDNG"}
  TimeoutSecs = 0
  BackoffSecs = 0
  HoldMaxAge = 0
  MaxQueries = 0
  MaxArrivals = 1
SPECIFICATION FairSpec
INVARIANTS
  OutcomeIsTheServices
PROPERTIES
  OutboxDrains

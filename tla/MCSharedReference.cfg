\* Two payments with the same sender reference on the same day.
CONSTANTS
  Key = {k1, k2}
  Plays = {"settle", "reject"}
  Message <- MCMessage
  Sha256 <- MCSha256
  MsgId <- SharedMsgId
  Scenario <- MCScenario
  Invalid <- MCInvalid
  Deployments <- MCShared
  None = None
  Sweeper = sweeper
  Handler = {h1}
  Time = {0}
  Advice = {"ACSC", "ACCC", "ACWP", "RJCT", "PDNG"}
  TimeoutSecs = 0
  BackoffSecs = 0
  HoldMaxAge = 0
  MaxQueries = 2
  MaxArrivals = 2
SPECIFICATION Spec
INVARIANTS
  OutcomeIsTheServices

\* An ACWP whose follow-up is an RJCT, over MQ.
CONSTANTS
  Key = {k1}
  Plays = {"awpRjct"}
  Message <- MCMessage
  Sha256 <- MCSha256
  MsgId <- MCMsgId
  Scenario <- MCScenario
  Invalid <- MCInvalid
  Deployments <- MCRelay
  None = None
  Sweeper = sweeper
  Handler = {h1}
  Time = {0}
  Advice = {"ACSC", "ACCC", "ACWP", "RJCT", "PDNG"}
  TimeoutSecs = 0
  BackoffSecs = 0
  HoldMaxAge = 0
  MaxQueries = 2
  MaxArrivals = 2
SPECIFICATION Spec
INVARIANTS
  MoneyMovedIsNotRejected

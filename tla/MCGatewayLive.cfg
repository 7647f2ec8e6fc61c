\* Fair threads over MQ, one loss and no crash, a risk check that may hold and
\* a moving clock: every queued payment resolves, every overdue hold ends.
CONSTANTS
  Key = {k1}
  Plays = {"settle", "timeout", "delay", "awpRjct"}
  Message <- MCMessage
  Sha256 <- MCSha256
  MsgId <- MCMsgId
  Scenario <- MCScenario
  Invalid <- MCInvalid
  Deployments <- MCLive
  None = None
  Sweeper = sweeper
  Handler = {h1}
  Time = {0, 1}
  Advice = {"ACSC", "ACCC", "ACWP", "RJCT", "PDNG"}
  TimeoutSecs = 0
  BackoffSecs = 0
  HoldMaxAge = 0
  MaxQueries = 2
  MaxArrivals = 2
SPECIFICATION FairSpec
PROPERTIES
  SubmittedIsResolved
  OverdueHoldsEnd

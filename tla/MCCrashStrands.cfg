\* A crash between mark_published and the append of Published.
CONSTANTS
  Key = {k1}
  Plays = {"settle"}
  Message <- MCMessage
  Sha256 <- MCSha256
  MsgId <- MCMsgId
  Scenario <- MCScenario
  Invalid <- MCInvalid
  Deployments <- MCCrash
  None = None
  Sweeper = sweeper
  Handler = {h1}
  Time = {0}
  Advice = {"ACSC", "ACCC", "ACWP", "RJCT", "PDNG"}
  TimeoutSecs = 0
  BackoffSecs = 0
  HoldMaxAge = 0
  MaxQueries = 2
  MaxArrivals = 2
SPECIFICATION FairSpec
PROPERTIES
  SubmittedIsResolved

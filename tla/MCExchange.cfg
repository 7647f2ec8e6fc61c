\* One payment from request to advice; the behaviour ends when nothing is left
\* to send, receive or ask.
SPECIFICATION Spec
CONSTANTS
  None = None
  Reason <- MCReason
  ReasonCode <- MCReasonCode
  Bank <- MCBank
  Setups <- MCSetups
  MaxQueries = 10
  MaxLosses = 1
INVARIANTS
  TypeOK
  AcceptedWithinLimits
  RefusalNamesEveryDefect
  TrafficKeepsTheProfile
  AdviceReachesItsPayment
CHECK_DEADLOCK FALSE

\* Two callers and two payments: answers late, in time or never, errors and panics.
CONSTANTS
  Caller = {c1, c2}
  Worker = {w1, w2}
  Subject = {"fine", "fraud"}
  Opinion <- MCOpinion
  Settings <- MCSettings
  DefaultMaxInFlight = 2
  None = None
SPECIFICATION FairSpec
INVARIANTS
  TypeOK
  SlotsAreCalls
  VerdictIsJustified
  FailOpenIsAskedFor
PROPERTIES
  ChecksEnd
  BudgetComesBack

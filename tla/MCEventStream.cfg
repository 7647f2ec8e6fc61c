\* Every event stream of at most seven events, over two times and two digests.
CONSTANTS
  Message = {m1, m2}
  Sha256 <- MCSha256
  Time = {0, 1}
  None = None
  MaxEvents = 7
SPECIFICATION Spec
INVARIANTS
  TypeOK
  ReplayRebuilds
  OnceInALife
  FirstDecisiveAdviceWins
  ClearedOnlyAsJudged
  QueriesFollowTimeout
CHECK_DEADLOCK FALSE

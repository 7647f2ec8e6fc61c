\* Two payments, two messages, every call the service can make in any order.
CONSTANTS
  Key = {k1, k2}
  Message = {m1, m2}
  Sha256 <- MCSha256
  Time = {0}
  None = None
  Advice = {"ACWP", "RJCT"}
  MaxQueries = 1
SYMMETRY Symmetric
SPECIFICATION StoreSpec
INVARIANTS
  StoreTypeOK
  ParkedExactlyWhileHeld
  QueuedExactlyWhenCleared
  OneEntryPerPayment
  HeldSendsOnlyWhatWasParked
PROPERTIES
  KeepsPromise
CHECK_DEADLOCK FALSE

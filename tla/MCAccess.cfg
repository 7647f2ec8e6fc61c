\* Two clients, one payment, two lives of the gateway with other keys in each.
CONSTANTS
  Token = {"a", "b", "c", "r", "weak"}
  Strong = {"a", "b", "c", "r"}
  Label = {"ann", "bob", "4111111"}
  ShortCode = {"ann", "bob"}
  Environment <- MCEnvironment
  Client = {c1, c2}
  PaymentKey = {"p1"}
  MaxStarts = 2
  Asked <- MCAsked
  None = None
SPECIFICATION Spec
SYMMETRY Symmetric
INVARIANTS
  TypeOK
  SeparationOfDuties
  ActorIsTheKeys
  OnlyKeysAreAnswered
CHECK_DEADLOCK FALSE

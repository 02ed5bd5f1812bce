CONSTANTS
  Request = {q1, q2, q3, q4}
  Key = {k1}
  Policies = {"direct", "approval", "denied"}
  Nil = Nil
SPECIFICATION MixedSpec
INVARIANTS
  TypeOK
  NothingUnapproved
  ActiveIsTruthful
  OneCommand
  NoCircularWait
PROPERTIES
  KeepsDecision
  RequestsAdvance
  EveryRequestEnds
CHECK_DEADLOCK FALSE

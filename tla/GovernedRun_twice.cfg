CONSTANTS
  Request = {q1, q2, q3, q4}
  Key = {k1}
  Policies = {"approval"}
  Nil = Nil
SPECIFICATION Spec
SYMMETRY Symmetry
INVARIANTS
  ConsumedOnce
CHECK_DEADLOCK FALSE

CONSTANTS
  Call = {c1, c2}
  Request = {r1}
  Nil = Nil
  Verifies = TRUE
  Prompt = TRUE
  MaxStalls = 1
  MaxTimeouts = 1
SPECIFICATION Spec
INVARIANT OneMutation
CHECK_DEADLOCK FALSE

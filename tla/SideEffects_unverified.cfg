CONSTANTS
  Call = {c1, c2}
  Request = {r1}
  Nil = Nil
  Verifies = FALSE
  Prompt = TRUE
  MaxStalls = 0
  MaxTimeouts = 1
SPECIFICATION Spec
PROPERTY NoBlindRetry
CHECK_DEADLOCK FALSE

CONSTANTS
  Call = {c1, c2, c3}
  Request = {r1, r2}
  Nil = Nil
  Verifies = TRUE
  Prompt = TRUE
  MaxStalls = 1
  MaxTimeouts = 1
SPECIFICATION FairSpec
INVARIANTS
  TypeOK
  SentIsStored
  OneUntilStalled
PROPERTIES
  NothingSentOnceMade
  OneReceipt
  EveryCallEnds
CHECK_DEADLOCK FALSE

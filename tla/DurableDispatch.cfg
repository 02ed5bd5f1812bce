CONSTANTS
  Engine = {e1, e2}
  Mortal = {e2}
  RecoveryEngines = {e1}
  Registered = {e1, e2}
  Workflow = {w1}
  Request = {r1, r2}
  Call = {c1, c2}
  Task = {t1, t2, t3}
  Nil = Nil
  MaxStalls = 1
SPECIFICATION StableSpec
INVARIANTS
  TypeOK
  StartsOnce
  LeaseCoherence
  OutcomeHasRun
  AcceptedRequest
  InHand
PROPERTIES
  QuietCancelHolds
  KeepsPromise
  Dispatched
CHECK_DEADLOCK FALSE

CONSTANTS
  Engine = {e1, e2}
  RecoveryEngines = {e1, e2}
  Registered = {e1, e2}
  Workflow = {w1}
  Request = {r1}
  Call = {c1, c2}
  Task = {t1, t2}
  Nil = Nil
  MaxStalls = 0
SPECIFICATION FairSpec
PROPERTY InterruptedFinish
CHECK_DEADLOCK FALSE

CONSTANTS
  Worker = {w1}
  Plain = {}
  Direct = {}
  MaxConcurrent = 1
SPECIFICATION SwarmFairSpec
PROPERTY HonestOutcome
CHECK_DEADLOCK FALSE

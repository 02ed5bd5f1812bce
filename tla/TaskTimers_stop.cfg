CONSTANTS
  Client = {a1}
  OneTime = {}
  Recurring = {t}
  Chain = {k1}
  NoChain = NoChain
  NoTimed = NoTimed
SPECIFICATION TimersFairSpec
PROPERTY StopsWhenTold
CHECK_DEADLOCK FALSE

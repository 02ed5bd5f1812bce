CONSTANTS
  Agent = {g1}
  GuardedCall = {call1}
SPECIFICATION GovernanceSpec
PROPERTY EmergencyHalts
CHECK_DEADLOCK FALSE

CONSTANTS
  MaxAgents = 2
  MaxPresses = 4
  MaxCommands = 1
  MaxChanges = 1
  MaxQueue = 1
SPECIFICATION FairSpec
INVARIANTS
  OneReachableAgent
PROPERTIES
  SessionEnds
  PhonePauses
CHECK_DEADLOCK FALSE

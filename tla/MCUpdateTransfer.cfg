SPECIFICATION FairSpec
CONSTANTS
  p1 = p1
  Agent = agent
  debugger = debugger
  Nothing = Nothing
  Peers = {p1}
  Components = {agent, debugger}
  Versioned = {agent}
  Automatic = TRUE
  MaxVersion = 2
  Size = 2
  MaxUpdates = 3
INVARIANTS
  TypeOK
  OneRequestOut
  FileTracksProgress
PROPERTIES
  UpdateEnds
  UpdateAdvances
CHECK_DEADLOCK FALSE

SPECIFICATION Spec
CONSTANTS
  i1 = i1
  i2 = i2
  i3 = i3
  i4 = i4
  i5 = i5
  Ids = {i1, i2, i3, i4, i5}
  MaxHistory = 2
  MaxPersisted = 3
  MaxAgents = 2
  MaxStarts = 2
  Earlier <- MCEarlier
  MaxLines = 1
SYMMETRY IdSymmetry
INVARIANT
  NoneRunsWithoutAgent
CHECK_DEADLOCK FALSE

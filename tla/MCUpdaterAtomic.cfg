SPECIFICATION FairSpec
CONSTANTS
  Versions <- MCVersions
  Healthy <- MCHealthy
  Nothing = Nothing
  Part = Part
  MaxTries = 2
  MaxRuns = 2
INVARIANT
  TargetThere
CHECK_DEADLOCK FALSE

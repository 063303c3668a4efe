SPECIFICATION FairSpec
CONSTANTS
  Versions <- MCVersions
  Healthy <- MCHealthy
  Nothing = Nothing
  Part = Part
  MaxTries = 2
  MaxRuns = 2
INVARIANTS
  TypeOK
  NeverPartial
  PreviousKept
  ReportIsTrue
PROPERTY
  HelperEnds
\* No helper is started after MaxRuns.
CHECK_DEADLOCK FALSE

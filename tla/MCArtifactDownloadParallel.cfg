SPECIFICATION FairSpec
CONSTANTS
  p1 = p1
  p2 = p2
  a1 = a1
  a2 = a2
  Peers = {p1, p2}
  Artifacts = {a1, a2}
  Blocks = {1, 2, 3}
  BlocksOf <- MCBlocksOf
  Manifests <- MCManifests
  MaxParallel = 2
  MaxProviders = 2
  MaxCommands = 2
  NoDownload = NoDownload
  Nothing = Nothing
INVARIANT
  ParallelBound
CHECK_DEADLOCK FALSE

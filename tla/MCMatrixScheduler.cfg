CONSTANTS
  Jobs = {j1}
  Remotes = {r1, r2, r3}
  Local = local
  MaxChunks = 3
  MaxOffer = 1
  MaxAttempts = 3
SPECIFICATION FairSpec
INVARIANTS TypeOK ChunksAccountedFor CountersAgree OneChunkPerWorker NoStalledJob RetriesGoFirst
PROPERTIES JobsEnd WorkersOnlyLeave GivesUpOnlyWhenStuck KeepsPromise
\* Once every job is reported and nothing is outstanding, only resources change.
CHECK_DEADLOCK FALSE

SPECIFICATION Spec
CONSTANTS
  MinSize = 16
  MaxSize = 768
  MaxChunkRows = 128
  Sizes <- MCSizes
  RowCounts <- MCRowCounts
INVARIANTS
  TypeOK
  RowsPartitioned
  NoChunkRefused
CHECK_DEADLOCK FALSE

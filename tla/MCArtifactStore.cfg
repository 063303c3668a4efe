CONSTANTS
  Threads = {t1, t2}
  Loop = loop
  b1 = b1
  b2 = b2
  a1 = a1
  a2 = a2
  Blocks = {b1, b2}
  Artifacts = {a1, a2}
  Content <- MCContent
  Size <- MCSize
  ManifestBytes = 1
  Quota = 6
  MaxCrashes = 1
  MaxDamages = 1
SPECIFICATION Spec
SYMMETRY AnyThread
INVARIANTS
  TypeOK
  PublishedIsWhole
  QuotaKept
  ExportedIsWhole

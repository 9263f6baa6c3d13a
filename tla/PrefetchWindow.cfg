SPECIFICATION FairSpec
CONSTANTS
  Last = 3
  Workers = {w1}
  Window = 2
  MaxCached = 1
  MaxCandidates = 2
  Nobody = Nobody
INVARIANTS
  TypeOK
  WindowBounded
  FilesOwned
  HandedOver
PROPERTIES
  Served
  FilesGone
CHECK_DEADLOCK FALSE

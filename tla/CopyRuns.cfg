SPECIFICATION FairSpec
CONSTANTS
  v1 = v1
  v2 = v2
  f1 = f1
  p1 = p1
  srv = srv
  Tasks = {v1, v2}
  Workers = {w}
  Nonces = {}
  Paths = {p1}
  Sizes = {1, 2}
  OutputAction = {"copy"}
  MaxAttempts = 3
  NoWorker = NoWorker
  NoNonce = NoNonce
  NoPath = NoPath
  NoSize = NoSize
  Scanners = {srv, once}
  Server = srv
  Sources = {f1}
  SrcOf <- TwoVersions
  PathOf <- OnePath
  SizeOf <- GrowingSizes
  NoTask = NoTask
  Batch = 1
  Leases <- OneLeaseOrNone
  MaxEvents = 1
INVARIANTS
  TypeOK
  FinalizedBacked
  AttemptsBounded
  FinalizedWhole
PROPERTIES
  Progress

SPECIFICATION Spec
CONSTANTS
  t1 = t1  t2 = t2  p1 = p1  p2 = p2  d1 = d1
  Tasks = {t1, t2}
  Workers = {w1, w2}
  Threads = {h1}
  Nonces = {n1}
  Paths = {p1}
  Dirs = {d1}
  Sizes = {s1, s2}
  OutputAction = {"ok", "copy"}
  MaxAttempts = 2
  NoWorker = NoWorker  NoNonce = NoNonce  NoPath = NoPath  NoSize = NoSize
  NoTask = NoTask
  OutPaths <- SharedOutPaths
  DirOf <- OneDir
  Scope <- AnyScope
  Kinds <- AllKinds
SYMMETRY Symmetry
INVARIANTS TypeOK LeaseColumns FinalizedBacked AuditAgrees
PROPERTIES ImplementsLifecycle

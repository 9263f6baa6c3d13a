SPECIFICATION Spec
CONSTANTS
  t1 = t1  t2 = t2  p1 = p1  p2 = p2  d1 = d1
  Tasks = {t1, t2}
  Workers = {w1}
  Threads = {h1, h2}
  Nonces = {n1, n2}
  Paths = {p1, p2}
  Dirs = {d1}
  Sizes = {s1, s2}
  OutputAction = {"ok"}
  MaxAttempts = 1
  NoWorker = NoWorker  NoNonce = NoNonce  NoPath = NoPath  NoSize = NoSize
  NoTask = NoTask
  OutPaths <- OwnOutPaths
  DirOf <- OneDir
  Scope <- AnyScope
  Kinds = {"lease", "intent", "complete"}
SYMMETRY SourceSymmetry
INVARIANTS OutputsOwned CompleteVerified AttemptsBounded

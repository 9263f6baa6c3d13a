SPECIFICATION Spec
CONSTANTS
  Tasks = {t1, t2}
  Workers = {w1, w2}
  Nonces = {n1}
  Paths = {p1}
  Sizes = {s1}
  OutputAction = {"ok"}
  MaxAttempts = 2
  NoWorker = NoWorker
  NoNonce = NoNonce
  NoPath = NoPath
  NoSize = NoSize
  MaxInflight = 2
  BatchSize = 2
  Once = {w1}
  Interrupts = FALSE
  Lossy = FALSE
  MaxFaults = 2
  NoTask = NoTask
SYMMETRY Symmetry
INVARIANTS
  TypeOK
  NoDoubleWork
  LeaseCovers
  OnceReports

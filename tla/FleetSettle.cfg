SPECIFICATION FairSpec
CONSTANTS
  Tasks = {t1, t2}
  Workers = {w1, w2}
  Nonces = {n1}
  Paths = {p1}
  Sizes = {s1}
  OutputAction = {"ok"}
  MaxAttempts = 3
  NoWorker = NoWorker
  NoNonce = NoNonce
  NoPath = NoPath
  NoSize = NoSize
  MaxInflight = 2
  BatchSize = 2
  Once = {}
  Interrupts = TRUE
  Lossy = TRUE
  MaxFaults = 1
  NoTask = NoTask
PROPERTY
  AllSettle

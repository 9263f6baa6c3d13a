SPECIFICATION FairSpec
CONSTANTS
  Tasks = {t1}
  Workers = {w1, w2, w3}
  Nonces = {n1}
  Paths = {p1}
  Sizes = {s1}
  OutputAction = {"ok"}
  MaxAttempts = 2
  NoWorker = NoWorker
  NoNonce = NoNonce
  NoPath = NoPath
  NoSize = NoSize
  MaxInflight = 1
  BatchSize = 1
  Once = {}
  Interrupts = FALSE
  Lossy = FALSE
  MaxFaults = 2
  NoTask = NoTask
PROPERTY
  ExpiredReassigned

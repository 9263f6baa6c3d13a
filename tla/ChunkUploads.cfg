SPECIFICATION Spec
CONSTANTS
  u1 = u1  u2 = u2  u3 = u3  a = a  b = b
  Uploads = {u1, u2, u3}
  Total <- Lengths
  ChunkLen = 2
  MaxTries = 2
  WorkerOf <- TwoWorkers
  Content <- OwnContent
  MaxInFlight = 2
  NoUpload = NoUpload
  NoFile = NoFile
CHECK_DEADLOCK FALSE
INVARIANTS StagedIntact

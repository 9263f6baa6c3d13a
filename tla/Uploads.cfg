SPECIFICATION FairSpec
CONSTANTS
  Items = {i1, i2, i3, i4}
  Jobs = {1, 2}
  UploadJobs = 1
  IdleRetries = 1
  Flaky = {i1}
  NoItem = NoItem
CHECK_DEADLOCK FALSE
INVARIANTS QueueInv SlotsConserved DiskBounded ExitComplete
PROPERTIES Terminates

SPECIFICATION FairSpec
CONSTANTS
  Items = {i1, i2, i3}
  Jobs = {1}
  UploadJobs = 1
  IdleRetries = 1
  Flaky = {i1, i2, i3}
  NoItem = NoItem
CHECK_DEADLOCK FALSE
PROPERTIES DeferredRetried

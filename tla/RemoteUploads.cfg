SPECIFICATION FairSpec
CONSTANTS
  Names <- Pictures
  TargetExt <- ToWebp
  Lower <- Lowered
  Numbers <- TwoToSeven
  SizeOf <- Sizes2
  Partial = 1
  Huge = 99
  Copied = {" 1", " 2"}
  MaxFaults = 1
  MaxMisses = 1
  Retries = 1
  Uploading <- Small
INVARIANTS
  TypeOK
  NamesDistinct
  Kept
  PathTrue
PROPERTIES
  LargerKept
  Ends
CHECK_DEADLOCK FALSE

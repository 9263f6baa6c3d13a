SPECIFICATION FairSpec
CONSTANTS
  Devices = {d1, d2, d3}
  Nobody = Nobody
  Remote = {TRUE, FALSE}
  Steal = {TRUE, FALSE}
  MaxFaults = 2
INVARIANTS
  LocalInv
  MutualExclusion
  NoOrphan
PROPERTIES
  TakenOver

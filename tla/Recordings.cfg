SPECIFICATION FairSpec
CONSTANTS
  d1 = d1
  d2 = d2
  r1 = r1
  r2 = r2
  Scenes <- SomeScenes
  Devices = {d1, d2}
  Takes = {r1, r2}
  NoTake = NoTake
  Quota = 1
  Split = {"start", "save", "delete"}
  RetryInSweep = FALSE
  PurgeBatch = 1
  MaxKeys = 2
  MaxCalls = 2
  MaxMishaps = 1
INVARIANTS TypeOK EvidenceKept
CHECK_DEADLOCK FALSE
PROPERTIES QuotaConverges ObjectsFreed

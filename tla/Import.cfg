SPECIFICATION FairSpec
CONSTANTS
  u1 = u1
  u2 = u2
  Products = {1, 2, 3}
  Changing = {2}
  Matching = {1, 3}
  Bad = {3}
  Users = {u1, u2}
  PageLimit = 2
  Overlap = 1
  MaxAttempts = 2
  MaxStalls = 1
  Scenes <- SomeScenes
  MaxJobs = 2
  MaxTime = 4
INVARIANTS TypeOK NothingUnlooked
PROPERTIES MappingsSettle EveryImportEnds
\* imports, changes and mishaps are bounded
CHECK_DEADLOCK FALSE

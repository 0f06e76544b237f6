\* A product before the offset disappears between two pages.
SPECIFICATION Spec
CONSTANTS
  u1 = u1
  u2 = u2
  Products = {1, 2, 3}
  Changing = {}
  Matching = {1, 3}
  Bad = {}
  Users = {u1, u2}
  PageLimit = 2
  Overlap = 1
  MaxAttempts = 2
  MaxStalls = 1
  Scenes <- Shrinking
  MaxJobs = 1
  MaxTime = 5
INVARIANT NothingUnlooked
CHECK_DEADLOCK FALSE

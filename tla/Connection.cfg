SPECIFICATION FairSpec
CONSTANTS
  o1 = o1
  o2 = o2
  scheduler = scheduler
  staff = staff
  push = push
  daily = daily
  OrderIds = {o1, o2}
  Pullers = {scheduler}
  Pushers = {push}
  Refreshers = {daily}
  Scenes <- SomeScenes
  Lag = 1
  Overlap = 1
  MaxTime = 3
  MaxGen = 2
  MaxMishaps = 1
INVARIANTS TypeOK TokensCurrent NothingSkipped
PROPERTIES ChangesArrive
CHECK_DEADLOCK FALSE

SPECIFICATION Spec
CONSTANTS
  o1 = o1
  o2 = o2
  scheduler = scheduler
  staff = staff
  push = push
  daily = daily
  OrderIds = {o1}
  Pullers = {scheduler, staff}
  Pushers = {push}
  Refreshers = {daily}
  Scenes <- TwoPulls
  Lag = 1
  Overlap = 1
  MaxTime = 4
  MaxGen = 2
  MaxMishaps = 1
INVARIANTS NothingSkipped
CHECK_DEADLOCK FALSE

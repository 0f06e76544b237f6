SPECIFICATION Spec
CONSTANTS
  o1 = o1
  o2 = o2
  scheduler = scheduler
  staff = staff
  push = push
  daily = daily
  OrderIds = {o1, o2}
  Pullers = {scheduler, staff}
  Pushers = {push}
  Refreshers = {daily}
  Scenes <- Regrants
  Lag = 1
  Overlap = 1
  MaxTime = 3
  MaxGen = 3
  MaxMishaps = 1
INVARIANTS TokensCurrent
CHECK_DEADLOCK FALSE

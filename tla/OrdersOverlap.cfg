\* Two pulls of the store at once (a scheduled one and a webhook's).
SPECIFICATION Spec
CONSTANTS
  o1 = o1
  o2 = o2
  a = a
  b = b
  v1 = v1
  v2 = v2
  Listings = {a, b}
  Unmapped = Unmapped
  NoOrder = NoOrder
  InitialStock = 2
  LineQty <- Lines12
  OrderIds = {o1, o2}
  Variants = {v1, v2}
  Scenarios <- Overlapping
  Pullers = {p1, p2}
  Staff = {}
  Sequential = FALSE
  MaxRows = 2
INVARIANT EachStageOnce

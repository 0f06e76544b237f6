\* A line is mapped late and its order is cancelled before the next pull.
SPECIFICATION Spec
CONSTANTS
  o1 = o1
  o2 = o2
  a = a
  b = b
  v1 = v1
  v2 = v2
  Listings = {a, b}
  Unmapped = Unmapped
  NoOrder = NoOrder
  InitialStock = 2
  LineQty <- Lines12
  OrderIds = {o1, o2}
  Variants = {v1}
  Scenarios <- LateCancelled
  Pullers = {p1}
  Staff = {}
  Sequential = TRUE
  MaxRows = 2
INVARIANT NoPhantomStock

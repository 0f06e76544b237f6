\* One operation at a time: pulls, and staff resolving, or cancelling while the catalogue remaps.
SPECIFICATION Spec
CONSTANTS
  o1 = o1
  o2 = o2
  a = a
  b = b
  v1 = v1
  v2 = v2
  Listings = {a, b}
  Unmapped = Unmapped
  NoOrder = NoOrder
  InitialStock = 2
  LineQty <- Lines12
  OrderIds = {o1, o2}
  Variants = {v1, v2}
  Scenarios <- LinesAtWork
  Pullers = {p1}
  Staff = {s1}
  Sequential = TRUE
  MaxRows = 2
INVARIANTS TypeOK ReservedMatchesOrders ShippedOrReleased
PROPERTY ReservedVariantFrozen

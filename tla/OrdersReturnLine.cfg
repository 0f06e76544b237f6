\* A line cancelled inside an order that ships and comes back.
SPECIFICATION ReturnsSpec
CONSTANTS
  o1 = o1
  o2 = o2
  a = a
  b = b
  v1 = v1
  v2 = v2
  Listings = {a, b}
  Unmapped = Unmapped
  NoOrder = NoOrder
  InitialStock = 2
  LineQty <- Lines12
  OrderIds = {o1, o2}
  Variants = {v1}
  Scenarios <- LineCancelled
  Pullers = {p1}
  Staff = {}
  Sequential = TRUE
  MaxRows = 2
  Handlers = {h1}
  HandleTogether = FALSE
INVARIANT ReturnsMatchShipments

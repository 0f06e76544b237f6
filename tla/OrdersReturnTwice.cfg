\* Two handlers receive one return.
SPECIFICATION ReturnsSpec
CONSTANTS
  o1 = o1
  o2 = o2
  a = a
  b = b
  v1 = v1
  v2 = v2
  Listings = {a, b}
  Unmapped = Unmapped
  NoOrder = NoOrder
  InitialStock = 2
  LineQty <- Lines12
  OrderIds = {o1, o2}
  Variants = {v1}
  Scenarios <- Returning
  Pullers = {p1}
  Staff = {s1}
  Sequential = TRUE
  MaxRows = 2
  Handlers = {h1, h2}
  HandleTogether = TRUE
INVARIANT NoPhantomStock

SPECIFICATION Spec
CONSTANTS
  v1 = v1
  i1 = i1
  i2 = i2
  p1 = p1
  p2 = p2
  s1 = s1
  n1 = n1
  Worlds <- ReceiptsMeet
  Variants = {v1}
  Items = {i1, i2}
  VariantOf <- OneVariant
  Clerks = {c1, c2}
  Purchases = {p1, p2}
  Carts <- OrderCarts
  SaleIds = {s1}
  Baskets <- SaleCarts
  Refunds <- RefundCarts
  Opnames = {n1}
  MaxCount = 2
  MaxLoss = 1
  NoItem = NoItem
  InitialStock = 2
SYMMETRY ClerkSymmetry
INVARIANT ReceiptsWithinOrder
CHECK_DEADLOCK FALSE

SPECIFICATION Spec
CONSTANTS
  c1 = c1  c2 = c2  o1 = o1  o2 = o2  p1 = p1  sac = sac
  Component = {c1, c2}
  Order = {o1, o2}
  Purchase = {p1}
  Product = {sac}
  OrderProduct <- MCOrderProduct
  OrderQty <- MCOrderQty
  BomLine <- MCBomTwice
  InitialBom <- MCBom
  PurchaseLine <- MCPurchaseLine
  InitialStock <- MCStock
  StockInput <- NoInput
  OrderInput <- SomeStatus
  PurchaseInput <- NoInput
  ScanPlan <- IdPlan
  Request = {r1, r2, r3, r4}
  None = None
  Concurrency = 1
CHECK_DEADLOCK FALSE
SYMMETRY Symmetric
INVARIANTS DebitedOnce

SPECIFICATION FairSpec
CONSTANTS
  c1 = c1  c2 = c2  o1 = o1  o2 = o2  p1 = p1  sac = sac
  Component = {c1, c2}
  Order = {o2}
  Purchase = {p1}
  Product = {sac}
  OrderProduct <- MCOrderProduct
  OrderQty <- MCOrderQty
  BomLine <- MCBom
  InitialBom <- MCBom
  PurchaseLine <- MCPurchaseLine
  InitialStock <- MCStock
  StockInput <- SomeStock
  OrderInput <- SomeStatus
  PurchaseInput <- SomePurchaseStatus
  ScanPlan <- AnyPlan
  Request = {r1, r2, r3}
  None = None
  Concurrency = 3
CHECK_DEADLOCK FALSE
INVARIANTS StockConservation NonNegativeStock ReceivedAtMostOncePerOpening
PROPERTY EveryCallIsAnswered

SPECIFICATION Spec
CONSTANTS
  i1 = i1  i2 = i2
  Invoice = {i1}
  Total <- MCTotal
  Amount = {1, 2}
  InitialStatus = {"DRAFT", "ISSUED", "SENT", "PAID", "PARTIALLY_PAID", "OVERDUE", "CANCELLED"}
  StatusInput = {"ISSUED", "PAID"}
  KindInput = {"CREDIT_NOTE"}
  Call = {r1, r2, r3, r4}
  None = None
  Concurrency = 3
CHECK_DEADLOCK FALSE
SYMMETRY Symmetric
INVARIANTS PaidWithinTotal PaidIsBacked StatusMatchesAmount

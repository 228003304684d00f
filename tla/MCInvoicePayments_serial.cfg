SPECIFICATION Spec
CONSTANTS
  i1 = i1  i2 = i2
  Invoice = {i1, i2}
  Total <- MCTotal
  Amount = {1, 2}
  InitialStatus = {"ISSUED", "OVERDUE"}
  StatusInput = {"SENT", "CANCELLED"}
  KindInput = {}
  Call = {r1, r2, r3, r4}
  None = None
  Concurrency = 1
CHECK_DEADLOCK FALSE
SYMMETRY Symmetric
PROPERTY ImplementsAccounts

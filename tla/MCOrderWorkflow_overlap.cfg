SPECIFICATION Spec
CONSTANTS
  ProductionOrder = {o1}
  Delivery = {d1}
  Full = 1
  InitialStatus = {"TO_PROCESS", "IN_PRODUCTION"}
  StatusInput = {"IN_PRODUCTION"}
  EditStatus = {"TO_PROCESS"}
  EditBat = {TRUE}
  ProgressInput = {"IN_PROGRESS"}
  EditOf = {"IN_PROGRESS"}
  EditLink = {TRUE}
  EditDeliveryTo = {"IN_TRANSIT"}
  Call = {r1, r2}
  None = None
CHECK_DEADLOCK FALSE
SYMMETRY Symmetric
INVARIANTS BatGate
PROPERTIES QualityGate CompletedIsLocked

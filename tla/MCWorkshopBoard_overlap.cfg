SPECIFICATION BoardSpec
CONSTANTS
    Order = {o1}
    DeliveryNote = {d1, d2}
    Invoice = {}
    Request = {c1}
    StageCount = 3
    DayLength = 2
    LastDay = 2
    Offset = 1
    OrderInput <- MCOrderInput
    OrderBody <- MCOrderBody
    StageBody <- MCStageBody
    DocInput <- MCDocInput
    DocBody <- MCDocBody
    LastCreation = 0
    MaxEdits = 1
    QueueItemLimit = 1
    Ttl = 0
    MaxDuration = 1
    Null = Null
    Keep = Keep
SYMMETRY Symmetry
INVARIANTS
    DashboardFollowsTheWorkshop
PROPERTIES
    PlanningCoversOrders
CHECK_DEADLOCK FALSE

SPECIFICATION PagesSpec
CONSTANTS
    i1 = i1
    i2 = i2
    p1 = p1
    cl1 = cl1
    s1 = s1
    Invoice = {i1, i2}
    Purchase = {p1}
    Total <- MCTotal
    Client = {cl1}
    Supplier = {s1}
    ClientOf <- MCClientOf
    SupplierOf <- MCSupplierOf
    Own = {"OWN"}
    Amount = {1, 2}
    ManualEntry <- MCManualEntry
    BudgetInput <- MCBudgetInput
    InitialDue <- MCInitialDue
    InitialBudget <- MCInitialBudget
    InitialStatus = {"ISSUED"}
    InitialPurchase = {"CONFIRMED"}
    StatusInput = {"OVERDUE"}
    PurchaseInput = {"CANCELLED"}
    CreditInput = {{}, {i1}, {i2}}
    LastDay = 1
    Recent = 1
    Horizon = {1}
    AlertLimit = 1
    ReminderLimit = 1
    QueueItemLimit = 1
    OverdueLimit = 1
    Call = {c1, c2}
    None = None
SYMMETRY Symmetry
INVARIANTS
    SupplierPaidIsBacked
    OverviewError
    ClientBalanceAgrees
    AlertsFollowTheLedger
    
CHECK_DEADLOCK FALSE

SPECIFICATION ShopSpec
CONSTANTS
    Product = {p1, p2}
    Category = {k1, k2}
    Share = {s1}
    Client = {cl1}
    Company = Company
    Prefix = {SAC, PAN}
    MaxNumber = 2
    MaxTries = 2
    Limit = {1}
    NoLimit = NoLimit
    Call = {c1, c2}
    NoCall = NoCall
    MaxCalls = 3
    None = None
    Variant = {v1, v2}
    Price = {10, 12}
    NoPrice = NoPrice
SYMMETRY Symmetry
INVARIANTS
    CounterPassesDrawn
    DrawnRefIsFree
    ViewsNearLimit
    QuoteAgreesWithOrder
CHECK_DEADLOCK FALSE

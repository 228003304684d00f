SPECIFICATION FairSettingsSpec
CONSTANTS
    Template = {t1, t2}
    InvoiceType = {VENTE}
    AllTypes = AllTypes
    MaxCalls = 3
    Name = {n1, n2}
    MaxProfile = 2
    Kind = {"primary", "invoice"}
    Primary = "primary"
    Reader = {r1}
    None = None
INVARIANTS
    DefaultIsMirrored
    LogosMatchObjects
    CacheIsFresh
    OneLayout
PROPERTIES
    ResponsesCatchUp
CHECK_DEADLOCK FALSE

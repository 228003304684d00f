SPECIFICATION StaffSpec
CONSTANTS
    User = {u1, u2}
    NoUser = NoUser
    Email = {e1, e2}
    NoEmail = NoEmail
    Role <- MCRole
    Granted <- MCGranted
    Call = {c1, c2}
    MaxFailed = 2
    Patch <- MCPatch
    MaxTokens = 1
    Socket = {s1}
    NoClient = NoClient
SYMMETRY Symmetry
INVARIANTS
    LockedAfterEnoughFailures
    SessionHasCurrentRights
    RolesReachTheirSockets
CHECK_DEADLOCK FALSE

SPECIFICATION Spec
CONSTANTS
    Doc = {d1, d2, d3}
    NoDoc = NoDoc
    Call = {c1, c2}
    NoCall = NoCall
    InvoiceType = {"PRO", "FAC"}
    Legacy = {d1}
    MaxLevel = 2
    ByHand = {2}
    Kind = {"CMD", "LIV", "FAC"}
SYMMETRY Symmetric
INVARIANTS LevelsWithoutGaps AutomaticLevelIsFree LinesFollowNumber FoundByNumber
PROPERTY ImplementsRegister
CHECK_DEADLOCK FALSE

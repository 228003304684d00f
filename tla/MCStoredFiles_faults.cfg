SPECIFICATION FilesSpec
CONSTANTS
    Product = {p1}
    Invoice = {i1}
    Client = {cl1}
    Order = {o1}
    Task = {c1, c2, c3}
    None = None
SYMMETRY Symmetry
INVARIANTS
    ListedMeansStored
    NothingLeftOver
    SheetOfOneSave
PROPERTIES
    DownloadsAreOriginal
CHECK_DEADLOCK FALSE

CONSTANTS
    Env = {e1, e2}
    Root = e1
    VA = {0, 1, 2, 3}
    Stack = 3
    Kind <- Pages4
    Page = {p1, p2, p3, p4, p5, p6}
    Val = {v1, v2}
    MapFails = {}
    NoPage = NoPage
    Cleared = Cleared
SYMMETRY Symm
SPECIFICATION Spec
CHECK_DEADLOCK FALSE
INVARIANTS
    TypeOK
    NoWriteSharing
    FaultsAreHandled
PROPERTIES
    IsCopy

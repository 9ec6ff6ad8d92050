CONSTANTS
    CPU = {c1, c2}
    Env = {e1, e2, e3}
    va1 = va1
    va2 = va2
    pd1 = pd1
    VA = {va1, va2}
    PD = {pd1}
    PDX <- OneTable
    Page = {p1, p2, p3, p4, p5}
    RefMod = 16
    Misuse = {}
    NoPage = NoPage
    NoEnv = NoEnv
    KernDir = KernDir
SYMMETRY SymmAll
SPECIFICATION Spec
INVARIANTS
    TypeOK
    RefExact
    FreeExact
    TreesWhole
    Cr3Live
    TlbCoherent
PROPERTIES
    ReadOnlyStays

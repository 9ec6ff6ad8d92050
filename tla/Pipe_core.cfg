CONSTANTS
    Proc = {p1, p2}
    Root = p1
    CPU = {c1}
    NFD = 2
    PIPEBUFSIZ = 2
    Request = 3
    MaxBytes = 3
    Misuse = {}
    Idle = Idle
SPECIFICATION FairSpec
CHECK_DEADLOCK FALSE
INVARIANTS
    TypeOK
    DataOutlivesFds
PROPERTIES
    IsQueue
    LoopReturns

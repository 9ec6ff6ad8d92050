CONSTANTS
    Proc = {p1, p2}
    Root = p1
    CPU = {c1}
    NFD = 2
    PIPEBUFSIZ = 1
    Request = 1
    MaxBytes = 1
    Misuse = {}
    Idle = Idle
SPECIFICATION Spec
CHECK_DEADLOCK FALSE
INVARIANTS
    EofIsDrained

CONSTANTS
    Proc = {p1, p2, p3}
    Root = p1
    CPU = {c1}
    NFD = 2
    PIPEBUFSIZ = 1
    Request = 1
    MaxBytes = 1
    Misuse = {"fork_shared"}
    Idle = Idle
SPECIFICATION Spec
CHECK_DEADLOCK FALSE
INVARIANTS
    NoFalseEof

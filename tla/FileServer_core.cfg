CONSTANTS
    Client = {c1, c2}
    First = {c1}
    FD <- TwoFds
    Name = {n1}
    MAXOPEN = 2
    NGen = 2
    MaxSize = 1
    MaxDescs = 2
    SeekTo = {0}
    Misuse = {}
    None = None
SPECIFICATION FairSpec
CHECK_DEADLOCK FALSE
INVARIANTS
    TypeOK
    LiveFdsAreValid
PROPERTIES
    IsOpenFiles
    AcceptedIsAnswered

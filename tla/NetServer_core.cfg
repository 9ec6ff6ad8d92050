CONSTANTS
    s1 = s1
    s2 = s2
    c1 = c1
    c2 = c2
    w1 = w1
    w2 = w2
    w3 = w3
    w4 = w4
    main = main
    tcpip = tcpip
    None = None
    Worker <- FourWorkers
    Thread <- AllThreads
    Client = {c1, c2}
    Socket = {s1, s2}
    Event = {s1, s2}
    Mbox <- Mailboxes
    SocketsOf <- Shared
    MBOXSLOTS = 2
    QUEUE_SIZE = 4
    MaxPackets = 3
    MaxKept = 1
    Slow = {s2}
SPECIFICATION FairSpec
INVARIANTS
    TypeOK
    BuffersAreOwned
    NoLostWakeup
    CallsOutliveMessages
PROPERTIES
  SendsAreAnswered

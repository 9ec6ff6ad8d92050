CONSTANTS
    c1 = c1
    c2 = c2
    CPU = {c1, c2}
    BSP = c1
    NENV = 3
    MaxGen = 1
    NBoot = 1
    Misuse = {}
    NoCPU = NoCPU
    NoEnv = NoEnv
SPECIFICATION FairLockSpec
CHECK_DEADLOCK FALSE
INVARIANTS TypeOK ReceiverIsBlocked BigKernelLock OneCpuPerEnv CurenvIsRunning RunningIsOnCpu FreeListExact
PROPERTIES OnlyOwnCpuDeschedules RunnableRuns ZombieIsReaped

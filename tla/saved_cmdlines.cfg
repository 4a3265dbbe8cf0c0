CONSTANTS
    c1 = c1
    c2 = c2
    a = a
    b = b
    Cpu <- MCTwoCpus
    TopPid = 3
    PID_MAX = 3
    Comm <- MCComm
    InitParent <- MCInitParent
    InitComm <- MCInitComm
    DefaultNum = 2
    MaxNum = 2
    MaxTaskSteps = 1
    NoMap = NoMap
    Free = Free
    Reader = Reader
SYMMETRY CpuSymmetry
SPECIFICATION Spec
INVARIANTS
    TypeOK
    MapsInverse
    OwnNames
    LookupOwn
    RecentKept
PROPERTY RetryUntilSaved

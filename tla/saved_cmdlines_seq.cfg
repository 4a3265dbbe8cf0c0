CONSTANTS
    c1 = c1
    a = a
    Cpu <- MCCpu
    TopPid = 4
    PID_MAX = 3
    Comm <- MCComm
    InitParent <- MCInitParent
    InitComm <- MCInitComm
    DefaultNum = 3
    MaxNum = 3
    MaxTaskSteps = 0
    NoMap = NoMap
    Free = Free
    Reader = Reader
    NoSlot = NoSlot
SPECIFICATION SeqSpec
INVARIANT ListingComplete

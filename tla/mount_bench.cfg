CONSTANTS
    Times = 2
    MaxPass = 3
    MaxFaults = 2
SPECIFICATION Spec
CHECK_DEADLOCK FALSE
INVARIANTS
    TypeOK
    OneMeasured
    Rerunnable
PROPERTY LoopEnds

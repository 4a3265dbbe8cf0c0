CONSTANTS
    QueueCap = 2
    MaxRuns = 2
    MaxOther = 2
    MaxFaults = 1
SPECIFICATION Spec
CHECK_DEADLOCK FALSE
INVARIANTS
    TypeOK
    Accounted
    FilesInOrder
    MarkerComplete
    TriggerExact
PROPERTY WalkEnds

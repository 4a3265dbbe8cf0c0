CONSTANTS
    r1 = r1
    r2 = r2
    c1 = c1
    c2 = c2
    Reader = {r1, r2}
    Cpu = {c1, c2}
    All = All
    Nobody = Nobody
    OpenFiles <- MCSharedSplice
    Cap = 2
    MaxEvents = 3
    MaxSwitches = 1
SPECIFICATION Spec
INVARIANT EntryValid

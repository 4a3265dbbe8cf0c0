CONSTANTS
    File = {f1, f2}
    Cpu = {c1, c2}
    Global = TRUE
    MaxTracer = {irqsoff, wakeup}
    OtherTracer = {nop, function}
    Nop = nop
    MaxSize = 1
    Nobody = Nobody
SPECIFICATION FairSpec
INVARIANTS
    DisableBalanced
    DumpStopped
PROPERTIES
    ShrinkQuiet
    LockReleased

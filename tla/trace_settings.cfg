CONSTANTS
    File = {f1}
    Cpu = {c1}
    Global = TRUE
    MaxTracer = {irqsoff}
    OtherTracer = {nop}
    Nop = nop
    MaxSize = 3
    Default = 2
    Clock = {local, global}
    FirstClock = local
    Nobody = Nobody
SPECIFICATION SettingsSpec
INVARIANTS
    SettingsTypeOK
    SameSize
    SameSettings

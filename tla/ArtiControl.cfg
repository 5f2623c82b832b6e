SPECIFICATION Spec
CONSTANTS
    Timeout = 3
    SettleMin = 2
    IdleGrace = 1
    ChgTail = 2
    Advance = 6
    PumpCap = 3
    WallClock = TRUE
    FreeRunning = TRUE
    MaxJob = 3
    MaxSilence = 1
    Prompt = FALSE
    Tags = 3
    MaxTickN = 2
INVARIANTS
    TypeOK
    DeviceSeesInputs
    ReadIsItsOwn
    WriteTookEffect
    LoopsLetGo

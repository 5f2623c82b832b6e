SPECIFICATION TimerPolling
CONSTANTS
    Timeout = 3
    SettleMin = 2
    IdleGrace = 1
    ChgTail = 5
    Advance = 6
    PumpCap = 3
    WallClock = FALSE
    FreeRunning = FALSE
    MaxJob = 8
    MaxSilence = 4
    Prompt = TRUE
    Tags = 3
    MaxTickN = 2
PROPERTIES
    SettleDrainsJob
    FenceCompletes

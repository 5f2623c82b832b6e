SPECIFICATION Spec
CONSTANTS
    LimbBits = 4
    WordBits = 3
    AmountBits = 4
    Width <- MCWidth
    Registers <- MCRegisters
    Programs <- MCPrograms
    Stimuli <- MCStimuli
    MaxTicks = 2
INVARIANTS
    TypeOK
    Exact
CHECK_DEADLOCK FALSE

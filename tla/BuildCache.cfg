SPECIFICATION Spec
CONSTANTS
    Cpu = Cpu
    Gpu = Gpu
    None = None
    Designs = {Cpu, Gpu}
    Stem <- OwnNames
    Versions <- Editions
    MaxShards = 2
    Requests <- MCRequests
    Strikes <- Harmless
    EditStages <- Anywhere
INVARIANTS
    EmittedIsCurrent
    LinkedIsCurrent
    FlagsReach

SPECIFICATION Spec
CONSTANTS
    Inputs <- MCInputs
    Regs <- MCRegs
    Cells = {}
    Wires <- MCWires
    Val <- MCVal
    Zero = 0
    WireFn <- MCWireFn
    NHolds = 3
    HoldFn <- MCHoldFn
    SourceRank <- MCRank
    NPorts = 0
    EnFn <- NoPort
    AddrFn <- NoPort
    DataFn <- NoPort
    Fails <- MCFails
    Plans <- MCPlans
    Scalar <- MCScalar
    Outputs <- MCOutputs
    W = 2
    MaxTicks = 1000
INVARIANTS
    StampedIsSettled
    DrainSettles
    PendingPassIsArmed
    SleepersSettled
PROPERTIES
    MatchesReference
    NoLateWake
VIEW Alike

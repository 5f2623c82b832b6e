SPECIFICATION Spec
CONSTANTS
    Design = "direct_enable"
    Inputs <- MCInputs
    Regs <- MCRegs
    Arrays <- MCArrays
    Cells <- MCCells
    Wires <- MCWires
    Val <- MCVal
    Zero = 0
    WireFn <- MCWireFn
    NHolds = 5
    HoldFn <- MCHoldFn
    SourceRank <- MCRank
    NPorts = 2
    EnFn <- MCEnFn
    AddrFn <- MCAddrFn
    DataFn <- MCDataFn
    Fails <- MCFails
    Pages <- MCPages
    Part <- MCPart
    LeafParts <- MCLeafParts
    Tabled <- MCTabled
    LeafHolds <- MCLeafHolds
    Deps <- MCDeps
    GateReads <- MCGateReads
    BranchReads <- MCBranchReads
    EnReads <- MCEnReads
    EnTemps <- MCEnTemps
    PortReads <- MCPortReads
    AssertReads <- MCAssertReads
    Outputs <- MCOutputs
    W = 2
    MaxTicks = 1000
    MaxGen = 10000
PROPERTIES
    MatchesReference
VIEW Alike

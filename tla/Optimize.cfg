SPECIFICATION Spec
CONSTANTS
    Sources <- MCSources
    Width <- MCWidth
    Registers <- MCRegisters
    Inputs <- MCInputs
    Outputs <- MCOutputs
    PartOf <- OnePart
    ElseMax = 1
    CseNodes = 3
    CseGroup = 2
    LitsMax = 8
    TermsMax = 6
    FewTerms = 2
    AndMax = 5
    ManyWrites = 2
INVARIANTS
    TypeOK
    SameBehaviour
    NothingDangles
CHECK_DEADLOCK FALSE

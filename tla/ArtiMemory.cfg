SPECIFICATION LiveSpec
CONSTANTS
    WritePrograms <- MCWritePrograms
    ReadPrograms <- MCReadPrograms
    Addrs = {0, 1}
    Lanes = {1, 2}
    MaxLen = 2
    RespLimit = 2
INVARIANTS
    TypeOK
    RespQueueBounded
    OwedMeansBusy
PROPERTIES
    HeadHeld
    IsMemory
    AllServed

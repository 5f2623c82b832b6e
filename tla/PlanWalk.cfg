SPECIFICATION Spec
CONSTANTS
    Stop <- MCStop
    Assigned <- MCAssigned
    Graphs <- MCGraphs
INVARIANTS
    NothingLost
    ReaderStaleWithDep
PROPERTIES
    WalkReturns
CHECK_DEADLOCK FALSE

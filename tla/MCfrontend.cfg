SPECIFICATION Spec
CONSTANTS
    InfTime = 9
    MaxInsts = 4
    InstSet <- BranchMix
    Regs <- MCRegs
    IfqSize = 2
    MulLat = 2
    DivLat = 4
    NoBpu = FALSE
    Tage = TRUE
    DLats <- OneLat
    MaxIStall = 1
    MaxDStall = 0
INVARIANTS NoInstLost FetchFifoAligned WrongPathShape
PROPERTIES Termination

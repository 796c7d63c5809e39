SPECIFICATION Spec
CONSTANTS
    InfTime = 9
    MaxInsts = 4
    InstSet <- BackendMix
    Regs <- MCRegs
    IfqSize = 2
    MulLat = 2
    DivLat = 4
    NoBpu = TRUE
    Tage = FALSE
    DLats <- TwoLats
    MaxIStall = 0
    MaxDStall = 1
INVARIANTS HandlerAsserts NoStageSleeps
PROPERTIES CommitOrder Termination

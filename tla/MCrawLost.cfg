SPECIFICATION Spec
CONSTANTS
    InfTime = 9
    MaxInsts = 3
    InstSet <- BackendMix
    Regs <- MCRegs
    IfqSize = 2
    MulLat = 2
    DivLat = 4
    NoBpu = FALSE
    Tage = FALSE
    DLats <- TwoLats
    MaxIStall = 1
    MaxDStall = 1
PROPERTIES RawRespected

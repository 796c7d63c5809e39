CONSTANTS
    InfTime = 9
    NSets = 2
    NBlocks = 6
    Modes <- PrefetchModes
    MemLats = {1}
SPECIFICATION Spec
INVARIANTS
    StoresSurvive

CONSTANTS
    InfTime = 9
    NSets = 2
    NBlocks = 5
    Modes <- DataModes
    MemLats = {3}
SPECIFICATION Spec
INVARIANTS
    ReplayConsistent
    StoresSurvive
    RefillSeesStores
PROPERTIES
    ImplementsPort

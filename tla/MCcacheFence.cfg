CONSTANTS
    InfTime = 9
    NSets = 2
    NBlocks = 5
    Modes <- FenceModes
    MemLats = {1, 2}
SPECIFICATION Spec
INVARIANTS
    MemHandshake
    TagsUnique
PROPERTIES
    ImplementsPort

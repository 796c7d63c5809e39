CONSTANTS
    TablePow2 = 1
    HistLen = 2
    GhrBits = 3
    HistLens <- MCHistLens
    CompPow2 = 1
    TAG_BITS = 2
    CtrBits = 2
    U_MAX = 1
    U_RESET_PERIOD = 3
    SNAP_RING = 4
    RasDepth = 2
    Modes <- MCModes
    BtbPow2 = 1
    BtbTagBits = 1
    WrongPcs = {3}
    Window = 3
    LearnTime = 12
SPECIFICATION Spec
INVARIANTS
    HistoryExact
    SnapIntact
    RasExact
    Learns

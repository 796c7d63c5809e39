CONSTANTS
    MaxTick = 6
    max_insts = 4
    MaxFlight = 2
SPECIFICATION LoopSpec
INVARIANTS
    SumIsElapsed
    NeverAhead
    WindowConserved
    MarkersOnce
    DoneMeansDrained
    ChargedByCycle

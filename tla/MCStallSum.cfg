CONSTANTS
    MaxTick = 4
SPECIFICATION Spec
INVARIANTS
    SumIsCycles

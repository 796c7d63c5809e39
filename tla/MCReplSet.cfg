CONSTANTS
    Assoc = 4
    MaxTick = 10
SPECIFICATION Spec
INVARIANTS
    RecentSpared
    LruExact
    ReusedSpared
    BurstReplacesAll
\* The clock is bounded.
CHECK_DEADLOCK FALSE

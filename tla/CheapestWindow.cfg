\* Every set of cached half-hours, every duration up to more than the interval.
SPECIFICATION Spec
CONSTANTS
    Slot = 2
    Starts <- MCStarts
    Prices <- MCPrices
    Intervals <- MCIntervals
    Durations = {0, 1, 2, 3, 5, 12}
    Inf = Inf
INVARIANTS
    TypeOK
    ReturnsTheCheapest
    RefusesOnlyMisfits
    RunsAreMaximal
    NextAgreesWithRuns
CHECK_DEADLOCK FALSE

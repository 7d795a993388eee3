\* A plan is skipped the day after the clocks go forward.
SPECIFICATION Spec
CONSTANTS
    Day = 4
    Shift = 1
    SpringAt = 5
    FallAt = 13
    Ids = {1}
    Offers <- OneOffer
    NoPlan = NoPlan
    RefreshAt = 2
    JobMax = 1
    Horizons = {14}
    MaxTime = 11
INVARIANTS
    SkippedMeansSentToday

\* Two plans over the day the clocks go forward.
SPECIFICATION Spec
CONSTANTS
    Day = 4
    Shift = 1
    SpringAt = 5
    FallAt = 13
    Ids = {1, 2}
    Offers <- OneOffer
    NoPlan = NoPlan
    RefreshAt = 2
    JobMax = 1
    Horizons = {12}
    MaxTime = 10
INVARIANTS
    TypeOK
    PlanAtMostOnce
    SkipExplained
    DeadlineIsNextTime
PROPERTIES
    ImplementsOnceOnly
    NewPlanIsUnknown


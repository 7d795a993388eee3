\* No crash, and failures for the first plan only: what the job owes the others.
SPECIFICATION CalmSpec
CONSTANTS
    Day = 4
    Shift = 1
    SpringAt = 5
    FallAt = 13
    Ids = {1, 2}
    Offers <- BothOffers
    NoPlan = NoPlan
    RefreshAt = 2
    JobMax = 1
    Horizons = {7}
    MaxTime = 6
PROPERTIES
    FailuresStayApart

\* A window that was over before the job was started is announced.
SPECIFICATION Spec
CONSTANTS
    Day = 4
    Shift = 1
    SpringAt = 5
    FallAt = 13
    Ids = {1}
    Offers <- EarlyOffer
    NoPlan = NoPlan
    RefreshAt = 3
    JobMax = 1
    Horizons = {14}
    MaxTime = 11
INVARIANTS
    AnnouncesTonight

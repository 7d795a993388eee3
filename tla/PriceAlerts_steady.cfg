\* Slow sweeps, late refreshes and brief outages: no run is missed.
SPECIFICATION SteadySpec
CONSTANTS
    Chats = {1, 2}
    Regions = {1, 2}
    NoRegion = NoRegion
    Thresholds = {11, 21}
    Off = Off
    Sweeps = {s1, s2}
    Starts <- ThreeStarts
    Price <- TwoPrices
    Slot = 4
    LeadMin = 1
    LeadMax = 3
    Period = 1
    MaxTime = 8
INVARIANTS
    NoMiss

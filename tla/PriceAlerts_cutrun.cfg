\* The run announced is cut to the sweep's horizon.
SPECIFICATION Spec
CONSTANTS
    Chats = {1}
    Regions = {1}
    NoRegion = NoRegion
    Thresholds = {11}
    Off = Off
    Sweeps = {s1}
    Starts <- ThreeStarts
    Price <- OnePrice
    Slot = 4
    LeadMin = 1
    LeadMax = 2
    Period = 1
    MaxTime = 4
INVARIANTS
    AnnouncesWholeRun

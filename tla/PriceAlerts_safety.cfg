\* Overlapping sweeps, edits, failures, crashes and restarts.
SPECIFICATION Spec
CONSTANTS
    Chats = {1}
    Regions = {1, 2}
    NoRegion = NoRegion
    Thresholds = {11}
    Off = Off
    Sweeps = {s1, s2}
    Starts <- TwoStarts
    Price <- TwoPrices
    Slot = 4
    LeadMin = 1
    LeadMax = 2
    Period = 1
    MaxTime = 5
INVARIANTS
    TypeOK
    AtMostOnce
    ExclusiveClaim
    NoHoleAhead
    TruthfulStart
    ListedChatExists
PROPERTIES
    ClaimBeforeSend
    ImplementsOnceOnly
    SweepEnds

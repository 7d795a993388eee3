\* Daily job, refresh at start and a change of region beside each other.
SPECIFICATION Spec
CONSTANTS
    Chats = {c1, c2}
    Regions = {1, 2}
    Movers = {c1}
    NoRegion = NoRegion
    Default = 1
    Daily = daily
    Startup = startup
    Setters = {s1}
    AtOnce = 2
    Span = 2
    Deadline = 2
    MaxBackoff = 2
    Durations = {0}
    Last = 1
INVARIANTS
    TypeOK
    RefreshServesAll
    RegionIsPrimed
    NoHoleAhead
    TriesAreSpaced
PROPERTIES
    FillsAsPromised
    JobEnds

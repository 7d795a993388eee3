\* Three requests at once, two accounts, two regions.
SPECIFICATION Spec
CONSTANTS
    Requests = {r1, r2, r3}
    Creds = {acct1, acct2}
    Regions = {regionC, regionA}
    Default = regionC
    NoRow = NoRow
    NoLink = NoLink
    NoMeter = NoMeter
SYMMETRY Alike
INVARIANTS
    TypeOK
    MetersMatch
    LinkIsLastAsked
    RegionIsLastAsked
PROPERTIES
    ReportedIsStored

\* A consumption request undoes an unlink.
SPECIFICATION Spec
CONSTANTS
    Requests = {r1}
    Creds = {acct1}
    Regions = {regionC}
    Default = regionC
    NoRow = NoRow
    NoLink = NoLink
    NoMeter = NoMeter
INVARIANTS
    UnlinkedStaysUnlinked

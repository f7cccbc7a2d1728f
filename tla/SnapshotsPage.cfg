CONSTANTS
    t = t
    p = p
    n1 = n1
    n2 = n2
    None = None
    Spaces = {n1, n2}
    Paths <- OneTable
    MaxFiles = 2
    MaxClicks = 5
    MaxFlights = 2
    MaxSwitches = 1
SPECIFICATION SnapshotsSpec
INVARIANTS SnapshotsInv DialogsTellTheTruth
PROPERTIES Settles

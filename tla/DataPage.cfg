CONSTANTS
    t1 = t1
    t2 = t2
    None = None
    Tables = {t1, t2}
    Rows <- TwoTables
    Sizes = {1, 2}
    PaneSize = 1
    MaxClicks = 4
    MaxFlights = 3
SPECIFICATION Spec
INVARIANTS Inv OnlyTickedRowsOffered
PROPERTIES Settles

\* One job with up to three rows, or two with one; pages of one row, so that rows
\* are stored between two pages of a walk that goes on; three times.
SPECIFICATION Spec
CONSTANTS
    j1 = j1
    j2 = j2
    i1 = i1
    i2 = i2
    i3 = i3
    Null = Null
    Gone = Gone
    Jobs = {j1, j2}
    Rows = {i1, i2, i3}
    Limit = 1
    Recent = 1
    MonthStart = 1
    PerSecond = 1
    MaxTime = 2
    MaxStored = 5
    MaxOverlap = 2
    MaxBetween = 1
SYMMETRY Symmetry
CONSTRAINT Alike
CHECK_DEADLOCK FALSE
INVARIANTS TypeOK ListsAreWhole RowsCoverCounters OverviewAddsUp

\* A cancel request races the start and the end of a run.
SPECIFICATION Spec
CONSTANTS
    j1 = j1
    j2 = j2
    c1 = c1
    c2 = c2
    NoJob = NoJob
    Jobs = {j1}
    Clients = {c1, c2}
    Modes = {"deep"}
    MaxPages = 1
    MaxJobs = 1
    MaxTries = 1
    MaxStops = 0
    MaxFaults = 0
SYMMETRY Symmetry
CHECK_DEADLOCK FALSE
PROPERTIES CancelSticks

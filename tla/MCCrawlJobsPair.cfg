\* Two jobs share one worker slot: retry and scrape copy one into the other; liveness.
SPECIFICATION FairSpec
CONSTANTS
    j1 = j1
    j2 = j2
    c1 = c1
    c2 = c2
    NoJob = NoJob
    Jobs = {j1, j2}
    Clients = {c1}
    Modes = {"shallow", "scraper"}
    MaxPages = 1
    MaxJobs = 1
    MaxTries = 2
    MaxStops = 1
    MaxFaults = 0
CHECK_DEADLOCK FALSE
PROPERTIES ActiveSettles IdleCancelIsFinal

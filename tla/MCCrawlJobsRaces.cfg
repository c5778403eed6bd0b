\* One job, two concurrent requests, every mode, restarts and a fault.
SPECIFICATION Spec
CONSTANTS
    j1 = j1
    j2 = j2
    c1 = c1
    c2 = c2
    NoJob = NoJob
    Jobs = {j1}
    Clients = {c1, c2}
    Modes = {"sitemap", "shallow", "deep", "crawler", "scraper"}
    MaxPages = 2
    MaxJobs = 1
    MaxTries = 2
    MaxStops = 2
    MaxFaults = 1
SYMMETRY Symmetry
CHECK_DEADLOCK FALSE
INVARIANTS Accounting CompletedHasPages NoSilentStranding BoundedOvershoot
PROPERTIES ImplementsView

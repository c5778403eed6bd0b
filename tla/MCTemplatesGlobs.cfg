\* An agent that follows the tool's description of link patterns.
SPECIFICATION Spec
CONSTANTS
    r1 = r1
    r2 = r2
    r3 = r3
    r4 = r4
    Null = Null
    Words = {"news", "blog"}
    Dates = {1, 2, 3}
    Scores = {0, 30, 60}
    MaxSegments = 3
    Requests = {r1, r2}
    Names = {"n1", "n2"}
    Providers = {"openai", "google"}
    Bodies <- MCBodies
    Filters <- MCFilters
    ToolArgs <- MCToolArgs
    Modes = {"crawler", "scraper"}
    Urls <- MCUrls
SYMMETRY Symmetry
CHECK_DEADLOCK FALSE
INVARIANTS GlobsReachEngine

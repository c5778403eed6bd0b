\* Four requests of one or two accounts, and a restart.
SPECIFICATION Spec
CONSTANTS
    r1 = r1
    r2 = r2
    r3 = r3
    r4 = r4
    r5 = r5
    None = None
    Requests = {r1, r2, r3, r4}
    Emails = {"admin@x", "b@x"}
    Passwords = {"p", "q"}
    AdminEmail = "admin@x"
    AdminPassword = "p"
    AccessLife = 2
    RefreshLife = 1
    MaxClock = 4
    MaxRestarts = 1
SYMMETRY Symmetry
CHECK_DEADLOCK FALSE
INVARIANTS TypeOK OneLine LiveKnowsPassword BlockedWhileValid
PROPERTIES EndedIsFinal ColumnsIndependent

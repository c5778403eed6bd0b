\* Saves, partial clears and chats of one user overlap.  Chats that ask for a
\* model of their own give more keys than the cache holds.
SPECIFICATION Spec
CONSTANTS
    s1 = s1
    s2 = s2
    r1 = r1
    r2 = r2
    r3 = r3
    o = o
    Null = Null
    Blank = Blank
    Saves = {s1, s2}
    Requests = {r1, r2, r3}
    Providers = {"openai", "openai_compatible", "unsupported"}
    Overrides = {o}
    MaxCached = 2
SYMMETRY Symmetry
CHECK_DEADLOCK FALSE
INVARIANTS NoBorrowedKey ServesOwnSettings CacheIsRecent
PROPERTIES ClearStaysInScope

\* Three turns, overlapping or not, in two conversations.
SPECIFICATION Spec
CONSTANTS
    t1 = t1
    t2 = t2
    t3 = t3
    a = a
    b = b
    Turns = {t1, t2, t3}
    Conversations = {a, b}
    Kinds = {"chat", "stream"}
SYMMETRY Symmetry
CHECK_DEADLOCK FALSE
INVARIANTS TurnsWhole SidebarMatches ReplaysWholeTurns ReplaysInOrder

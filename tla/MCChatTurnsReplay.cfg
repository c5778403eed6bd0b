\* A reply replayed before its message.
SPECIFICATION Spec
CONSTANTS
    t1 = t1
    t2 = t2
    t3 = t3
    a = a
    b = b
    Turns = {t1, t2}
    Conversations = {a, b}
    Kinds = {"chat"}
SYMMETRY Symmetry
CHECK_DEADLOCK FALSE
INVARIANTS HumanBeforeReply

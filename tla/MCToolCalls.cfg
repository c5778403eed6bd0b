\* Two chats, two connections: they can starve each other.  Two calls: one of each
\* chat, or two of one chat at the same time.
SPECIFICATION Spec
CONSTANTS
    c1 = c1
    c2 = c2
    NoChat = NoChat
    Chats = {c1, c2}
    Tools = {"create", "cancel", "delete", "export"}
    PoolSize = 2
    MaxCalls = 2
CHECK_DEADLOCK FALSE
INVARIANTS TypeOK ToldTruth
PROPERTIES EveryChatEnds PoolRecovers

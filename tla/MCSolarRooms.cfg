SPECIFICATION Spec
CONSTANTS
    Rooms = {g, d}
    Directs = {d}
    Known = {g}
    Users = {}
    Handlers = {h}
    Waker = w
    Operators = {o}
    Window = 2
    Interval = 2
    OneAtATime = TRUE
    OwnRoomOnly = TRUE
    MaxTime = 2
    MaxBatches = 1
    MaxThreads = 2
    MaxTriggers = 1
    MaxCalls = 1
    None = None
CHECK_DEADLOCK FALSE

INVARIANT MentionHeard
INVARIANT WindowHasCause
INVARIANT GroupKeepsConversation

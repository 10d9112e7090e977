SPECIFICATION Spec
CONSTANTS
    x = x
    y = y
    f1 = f1
    f2 = f2
    None = None
    Rooms = {x}
    Known = {}
    Flushers = {f1, f2}
    Stopper = s
    RunsSend = TRUE
    CallsFail = TRUE
    MaxPosts = 3
    MaxDrops = 2
    MaxCrashes = 1
INVARIANT BatchesFlushed
INVARIANT DeliveredOnce
INVARIANT NoneSkipped
SYMMETRY Symmetry
CHECK_DEADLOCK FALSE

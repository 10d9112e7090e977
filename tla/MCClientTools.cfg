SPECIFICATION FairSpec
CONSTANTS
    r1 = r1
    r2 = r2
    NoResult = NoResult
    TimedOut = TimedOut
    Runs = {r1}
    Rounds = 3
    MaxPosts = 2
INVARIANT CallsSettled
PROPERTY RunsEnd
CHECK_DEADLOCK FALSE

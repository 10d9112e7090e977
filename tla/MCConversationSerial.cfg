SPECIFICATION Spec
CONSTANTS
    r1 = r1
    r2 = r2
    n1 = n1
    n2 = n2
    c1 = c1
    g1 = g1
    s1 = s1
    None = None
    Runs = {r1, r2}
    Notes = {n1}
    Compactors = {c1}
    Groups = {g1}
    Skills = {s1}
    Limits = {2}
    MaxRounds = 1
    MaxCalls = 2
    MayDelete = TRUE
    SerialRequests = TRUE
    MaxFaults = 1
INVARIANT SummaryHonest
INVARIANT ResultsFollowCalls
INVARIANT FiledUnderLiveGroup
PROPERTY KeepsLog
PROPERTY ContextComplete
PROPERTY ToolWritesKept
SYMMETRY Alike
CHECK_DEADLOCK FALSE

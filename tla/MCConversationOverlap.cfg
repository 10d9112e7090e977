SPECIFICATION Spec
CONSTANTS
    r1 = r1
    r2 = r2
    n1 = n1
    n2 = n2
    c1 = c1
    g1 = g1
    s1 = s1
    None = None
    Runs = {r1, r2}
    Notes = {}
    Compactors = {}
    Groups = {}
    Skills = {}
    Limits = {3}
    MaxRounds = 1
    MaxCalls = 1
    MayDelete = FALSE
    SerialRequests = FALSE
    MaxFaults = 1
INVARIANT PromptPairsCalls
INVARIANT NoRunLeftRunning
SYMMETRY Alike
CHECK_DEADLOCK FALSE

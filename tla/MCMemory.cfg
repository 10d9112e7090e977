SPECIFICATION Spec
CONSTANTS
    name = name
    note = note
    c1 = c1
    c2 = c2
    g1 = g1
    j1 = j1
    j2 = j2
    None = None
    Keys = {name}
    Notes = {}
    Contents = {c1, c2}
    Groups = {g1}
    Jobs = {j1, j2}
    MaxRows = 3
    MaxUpsets = 1
SYMMETRY Interchangeable
INVARIANT KeysKept
INVARIANT OneFactPerKey
INVARIANT RetentionFollowsFact
INVARIANT ResetForgets
CHECK_DEADLOCK FALSE

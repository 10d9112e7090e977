SPECIFICATION Spec
CONSTANTS
    a1 = a1
    a2 = a2
    golds = golds
    points = points
    r1 = r1
    r2 = r2
    r3 = r3
    m1 = m1
    m2 = m2
    None = None
    Accounts = {a1}
    Currencies = {golds}
    DefaultCurrency = golds
    Runs = {r1, r2, r3}
    Owner <- OneOwner
    ModelCurrency <- AllGolds
    Prices = {1, 3}
    Cent = 2
    Wall <- WallOf3
    Settlers = {}
    SerialCharges = FALSE
    PromptPasses = FALSE
    MaxDay = 0
    MaxFaults = 1
INVARIANT PaymentsAccounted
CHECK_DEADLOCK FALSE

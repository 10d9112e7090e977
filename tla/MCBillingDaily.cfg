SPECIFICATION FairSpec
CONSTANTS
    a1 = a1
    a2 = a2
    golds = golds
    points = points
    r1 = r1
    r2 = r2
    r3 = r3
    m1 = m1
    m2 = m2
    None = None
    Accounts = {a1, a2}
    Currencies = {golds}
    DefaultCurrency = golds
    Runs = {r1, r2}
    Owner <- TwoOwners
    ModelCurrency <- AllGolds
    Prices = {3}
    Cent = 2
    Wall <- WallsOff
    Settlers = {}
    SerialCharges = FALSE
    PromptPasses = TRUE
    MaxDay = 3
    MaxFaults = 0
PROPERTY CompletedDaysSettle
CHECK_DEADLOCK FALSE

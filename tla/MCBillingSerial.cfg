SPECIFICATION Spec
CONSTANTS
    a1 = a1
    a2 = a2
    golds = golds
    points = points
    r1 = r1
    r2 = r2
    r3 = r3
    m1 = m1
    m2 = m2
    None = None
    Accounts = {a1}
    Currencies = {golds, points}
    DefaultCurrency = golds
    Runs = {r1, r2}
    Owner <- OneOwner
    ModelCurrency <- MixedModels
    Prices = {1, 3}
    Cent = 2
    Wall <- WallOf3
    Settlers = {m1}
    SerialCharges = TRUE
    PromptPasses = FALSE
    MaxDay = 1
    MaxFaults = 0
INVARIANT UnpaidRowsExact
INVARIANT NeverOvercollected
INVARIANT ReconciledWithWallet
PROPERTY KeepsPromise
PROPERTY SettleRestoresOnlyPaid
PROPERTY LastRunChargesWall
CHECK_DEADLOCK FALSE

SPECIFICATION Spec
CONSTANTS
    c1 = c1
    c2 = c2
    c3 = c3
    k1 = k1
    e1 = e1
    None = None
    Calls = {c1, c2, c3}
    Streams = {c2}
    Responses = {c3}
    Credentials = {k1}
    Paid = {c1, c2, c3}
    Prices = {1}
    HourlyLimit = 1
    DailyLimit = 2
    HoursPerDay = 2
    Editors = {e1}
    Walls = {1}
    Hourlies = {2}
    SerialEdits = TRUE
    MaxRounds = 2
    MaxChanges = 1
    MaxFaults = 1
    Credential <- MCCredential
    Limit <- MCLimit
    Currency <- MCCurrency
    ModelCurrency <- MCModelCurrency
CHECK_DEADLOCK FALSE
INVARIANT UsedIsRecorded
INVARIANT AdmittedBelowLimits
INVARIANT LedgerMatchesOutcome
PROPERTY RevokedStaysRevoked
PROPERTY BlacklistingStands

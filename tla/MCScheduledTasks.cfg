SPECIFICATION Spec
CONSTANTS
    a = a
    b = b
    e1 = e1
    None = None
    OnceTasks = {a}
    IntervalTasks = {b}
    Editors = {e1}
    Intervals = {1, 2}
    MinInterval = 2
    Batch = 2
    Failing = {a}
    MaxTime = 2
    MaxFaults = 1
INVARIANT PendingHasTime
INVARIANT OnceRunsOnce
PROPERTY OnlyWantedRuns
PROPERTY IntervalKept
CHECK_DEADLOCK FALSE

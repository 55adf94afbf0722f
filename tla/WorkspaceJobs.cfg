SPECIFICATION FairSpec
CONSTANTS
    Workspaces = {ws1, ws2}
    w1 = w1
    w2 = w2
    Workers = {w1, w2}
    None = None
    MaxJobs = 2
    MaxAttempts = 2
    Budget = 2
    LeaseTicks = 1
    DelayTicks = 1
    BatchSize = 2
    MaxFaults = 1
INVARIANTS OneWriter AttemptsWithFaults
PROPERTIES SupersededWritesNothing LedgerSpec JobSettles
CHECK_DEADLOCK FALSE

\* One run, one call of work, two follow-ups, one lost event or request.
SPECIFICATION Spec
CONSTANTS
    r1 = r1
    Runs = {r1}
    NoRun = NoRun
    Work <- MCWork
    OwnMessages <- TwoMessages
    RecentLimit = 2
    MaxWrites = 2
    MaxDeltas = 2
    MaxWork = 1
    MaxOpens = 1
    MaxClock = 8
    MaxCrashes = 1
INVARIANTS Converges FollowUpsBelow
PROPERTIES NoRewind TextKept
\* The conversation may rest: every bound is reached, or nothing is asked.
CHECK_DEADLOCK FALSE

\* One workspace that leaves containers behind: timeouts, failovers and moves.
SPECIFICATION Spec
CONSTANTS
    Workspaces = {w1}
    Calls = {c1, c2}
    Manager = manager
    Direct = direct
    NoHost = nohost
    MAX_RUNNING = 1
    GlobalMax = 3
    Threshold = 1
    MaxJobs = 2
    MaxFaults = 1
PROPERTY LeaksReclaimed
CHECK_DEADLOCK FALSE

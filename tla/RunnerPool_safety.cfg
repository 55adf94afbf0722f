\* Two workspaces, prepared, stopped, removed and moved on a manager and a direct
\* host, two requests at a time, one fault.
SPECIFICATION Base
CONSTANTS
    Workspaces = {w1, w2}
    Calls = {c1, c2}
    Manager = manager
    Direct = direct
    NoHost = nohost
    MAX_RUNNING = 1
    GlobalMax = 3
    Threshold = 1
    MaxJobs = 2
    MaxFaults = 1
INVARIANTS CapacityKept OneTenant
SYMMETRY Interchangeable
CHECK_DEADLOCK FALSE

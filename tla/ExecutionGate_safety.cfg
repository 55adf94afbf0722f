\* Two tasks, generations 0 to 2, three executions, three faults.
SPECIFICATION GateSpec
CONSTANTS
    Tasks = {t1, t2}
    NoTask = NoTask
    MaxGeneration = 2
    MaxRuns = 3
    MaxFaults = 3
SYMMETRY Interchangeable
INVARIANTS SingleWriterIfAnswered
PROPERTIES NoStaleExecution TakeoverIsQuiet
CHECK_DEADLOCK FALSE

\* Every interleaving of two calls with one user event and one fault.
SPECIFICATION HandoffSpec
CONSTANTS
    Calls = {c1, c2}
    MaxRecoveries = 1
    MaxTried = 1
    MaxGenerations = 2
    MaxEvents = 1
    MaxMishaps = 1
INVARIANTS FenceLeadsRow NoOlderWriter
PROPERTY GenerationsGrow
SYMMETRY Interchangeable
CHECK_DEADLOCK FALSE

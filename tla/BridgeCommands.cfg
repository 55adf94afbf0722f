\* One command, two API processes, one fault; fairness, no symmetry.
SPECIFICATION FairSpec
CONSTANTS
    Commands = {c1}
    Apis = {a1, a2}
    MaxFaults = 1
INVARIANT RunsExcused
PROPERTIES ContractSpec EventuallyDecided
CHECK_DEADLOCK FALSE

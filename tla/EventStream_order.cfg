\* Two events of two processes, and two upsets of any kind.
SPECIFICATION FairSpec
CONSTANTS
    p1 = p1
    p2 = p2
    Procs = {p1, p2}
    Servers = {p1}
    Nobody = Nobody
    ReplayLimit = 1
    PageSize = 1
    MaxPages = 2
    RecentLimit = 2
    MaxEvents = 2
    MaxUpsets = 2
INVARIANTS OnlyFloorsSkip InOrderOnce SkipsComeFromElsewhere
PROPERTY EventuallyShown
CHECK_DEADLOCK FALSE

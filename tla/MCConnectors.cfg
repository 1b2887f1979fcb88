CONSTANTS
    Connector = {c1}
    Owner = {o1}
    Worker = {w1}
    Rest = {a, b}
    HistoryLimit = 2
    MaxQueued = 1
    MaxFaults = 1
    None = None
SPECIFICATION FairSpec
INVARIANT TypeOK
PROPERTIES QuietWritesLoseNothing ScheduledIsRun

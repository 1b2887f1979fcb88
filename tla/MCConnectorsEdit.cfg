CONSTANTS
    Connector = {c1}
    Owner = {o1}
    Worker = {w1}
    Rest = {a}
    HistoryLimit = 2
    MaxQueued = 1
    MaxFaults = 0
    None = None
SPECIFICATION Spec
PROPERTY EditKeepsSchedule

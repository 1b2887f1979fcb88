CONSTANTS
    Worker = {w1, w2}
    Deleter = {x1}
    Uri = {u1}
    Content = {c1, c2}
    NoText = {c2}
    Superseded = {}
    MaxIngests = 3
    None = None
SPECIFICATION FairSpec
PROPERTY EveryRequestReturns

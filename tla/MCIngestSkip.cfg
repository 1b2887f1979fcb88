CONSTANTS
    Worker = {w1}
    Deleter = {x1}
    Uri = {u1}
    Content = {c1, c2}
    NoText = {}
    Superseded = {}
    MaxIngests = 3
    None = None
SPECIFICATION Spec
PROPERTY SkipMeansIndexed

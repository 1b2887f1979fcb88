CONSTANTS
    Worker = {w1, w2}
    Deleter = {x1}
    Uri = {u1, u2}
    Content = {c1, c2}
    NoText = {}
    Superseded = {c2}
    MaxIngests = 3
    None = None
SPECIFICATION Spec
SYMMETRY Symmetry
INVARIANTS TypeOK ServedIsIndexed TextOfOneVersion RowsHaveOriginals JobsNameRows
PROPERTIES JobsMoveForward ImplementsIndex

CONSTANTS
    Poller = {p1, p2}
    e1 = e1
    e2 = e2
    fca = fca
    pra = pra
    u1 = u1
    Event = {e1, e2}
    Feed = {fca}
    FeedOf <- OneFeed
    UrlOf <- OnePage
    Uri = {u1}
    Content = {a, b}
    DocId = {d1, d2, d3}
    NoText = {}
    AutoIngest = TRUE
    MaxFaults = 1
    MaxCrashes = 0
    None = None
SPECIFICATION Spec
INVARIANTS TypeOK IngestedLinksDocument ResentOnlyByOverlap
SYMMETRY Symmetry

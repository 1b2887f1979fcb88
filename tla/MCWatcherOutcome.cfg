CONSTANTS
    Poller = {p1}
    e1 = e1
    e2 = e2
    fca = fca
    pra = pra
    u1 = u1
    Event = {e1, e2}
    Feed = {fca, pra}
    FeedOf <- TwoFeeds
    UrlOf <- OnePage
    Uri = {u1}
    Content = {a, b}
    DocId = {d1}
    NoText = {}
    AutoIngest = TRUE
    MaxFaults = 0
    MaxCrashes = 0
    None = None
SPECIFICATION Spec
INVARIANT OutcomeRecorded

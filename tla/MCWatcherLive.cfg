CONSTANTS
    Poller = {p1}
    e1 = e1
    e2 = e2
    fca = fca
    pra = pra
    u1 = u1
    Event = {e1, e2}
    Feed = {fca, pra}
    FeedOf <- TwoFeeds
    UrlOf <- OnePage
    Uri = {u1}
    Content = {a}
    DocId = {d1}
    NoText = {}
    AutoIngest = TRUE
    MaxFaults = 1
    MaxCrashes = 1
    None = None
SPECIFICATION FairSpec
PROPERTIES ListedIsRecorded RecordedIsAnnounced

CONSTANTS
    Indexer = {i1}
    Run = {r1, r2, r3}
    Version = {v1, v2}
    Worker = {w1, w2}
    MaxQueued = 1
    MaxFaults = 1
    MaxFailures = 1
    None = None
SPECIFICATION FairSpec
INVARIANTS TypeOK AbandonedOnlyByFault RunsHaveIndexers
PROPERTY UploadIsIngested
CHECK_DEADLOCK FALSE

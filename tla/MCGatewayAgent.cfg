CONSTANTS
    Caller = {p1, p2}
    CallKind = {"agent", "search", "task", "summary"}
    Editor = {}
    Configured = {"qwen", "openai"}
    Policies = {}
    Routings = {}
    InitialPolicy <- Open
    InitialRouting <- QwenFirst
    RequestLimit = 2
    TokenLimit = 0
    MaxSteps = 1
    MaxTools = 1
    LastArrival = 2
    MaxCalls = 6
    MaxLost = 0
    MaxExpired = 1
    Doc = {d1, d2}
    PipelineRun = {r1}
    Worker = {w1}
    Batch = 1
    MaxText = 1
    None = None
SPECIFICATION MCSpec
INVARIANTS TypeOK OvershootBounded
PROPERTIES EveryCallReturns BacklogDrains

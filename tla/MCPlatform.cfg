CONSTANTS
    Caller = {p1, p2}
    CallKind = {"ask", "stream"}
    Editor = {e1}
    Configured = {"qwen", "openai"}
    Policies <- AllPolicies
    Routings <- Orders
    InitialPolicy <- Open
    InitialRouting <- QwenFirst
    RequestLimit = 0
    TokenLimit = 3
    MaxSteps = 0
    MaxTools = 0
    LastArrival = 2
    MaxCalls = 2
    MaxLost = 1
    MaxExpired = 0
    Call = {c1, c2, c3}
    Session = {sess}
    Principal <- Colleagues
    MaxTurns = 2
    Owner = {o1, o2}
    MaxVersions = 3
    Chunk = {"c1", "c2", "c3", "c4"}
    DocumentOf <- TwoDocuments
    Depth = 2
    Limits = {1, 2, 3}
    Pool <- SmallPools
    MaxBatch = 2
    MaxVotes = 2
    Option = {0, 1}
    NoKey = NoKey
    Points = {10000}
    Weight = {1, 2}
    Awarded <- TroublesomePoints
    Mark = {667, 700}
    MaxQuestions = 3
    MaxCriteria = 2
    SavedModule = {m1}
    Learner = {u1, u2}
    Id = {i1, i2, i3}
    MaxRecords = 2
    Tenant = {t1, t2}
    Email = {mail1, mail2}
    MaxTokens = 2
    Request = {r1, r2}
    Limit = 1
    MaxClock = 3
    MaxClaims = 4
    Source = {src1, src2, src3}
    Preset = {fca}
    Doc = {d1}
    PipelineRun = {run1, run2}
    Worker = {w1, w2}
    Swept = 1
    MaxText = 2
    None = None
SPECIFICATION MCSpec
SYMMETRY Symmetry
INVARIANTS
    LockedStaysHome FallbackOnlyAfterFailure OneVoice LedgerTellsTruth
    PlatformTypeOK AnswersAreKept FollowUpsAreInformed LastChoiceServes
    OrderFollowsEvidence MarksAgree CompletionsAreProven TokensNameTheirAccount
    PagesMissNothing GreenIsEarned SummariesFollowTheText FoundOnce
CHECK_DEADLOCK FALSE

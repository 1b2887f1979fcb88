CONSTANTS
    Caller = {p1}
    CallKind = {"ask", "summary"}
    Editor = {}
    Configured = {"openai"}
    Policies = {}
    Routings = {}
    InitialPolicy <- Locked
    InitialRouting <- QwenFirst
    RequestLimit = 0
    TokenLimit = 0
    MaxSteps = 0
    MaxTools = 0
    LastArrival = 2
    MaxCalls = 2
    MaxLost = 0
    MaxExpired = 0
    None = None
SPECIFICATION Spec
INVARIANT NoPromptLeaves

------------------------------ MODULE Gateway ------------------------------
(***************************************************************************)
(* AIGateway and the guards in front of it: how a tenant's requests reach  *)
(* a model, under the quota, the policy and the routing of the tenant, and *)
(* what the usage ledger says of them afterwards.                          *)
(*                                                                         *)
(* Callers are the concurrent handlers and tasks. Each works through the   *)
(* awaits of AIGateway.complete / stream / complete_with_tools, so reads   *)
(* of the settings and of the ledger are steps of their own and may be     *)
(* stale when they are used. The owner's settings are one JSONB value that *)
(* every editor reads whole and writes back whole.                         *)
(*                                                                         *)
(* A crashed caller is one that takes no more steps. Texts, temperatures   *)
(* and max_tokens are abstracted; the tokens of a row are a function of    *)
(* what was exchanged.                                                     *)
(***************************************************************************)
EXTENDS Integers, Sequences, FiniteSets, FiniteSetsExt

CONSTANTS
    Caller,        \* concurrent requests and tasks of the tenant
    CallKind,      \* what they are: a subset of AllKinds
    Editor,        \* concurrent PUTs of the tenant's owner
    Configured,    \* targets whose endpoint or key the deployment has
    Policies,      \* the policies an owner saves, the initial one among them
    Routings,      \* the routing orders an owner saves
    InitialPolicy,
    InitialRouting,
    RequestLimit,  \* requests_per_day, 0 = unlimited
    TokenLimit,    \* tokens_per_day, 0 = unlimited
    MaxSteps,      \* max_steps of the agent loop
    MaxTools,      \* bound: tool calls a model asks for at once
    LastArrival,   \* bound: the last call number a request that arrives may get
    MaxCalls,      \* bound: call numbers, those of the agents' later calls included
    MaxLost,       \* bound: ledger writes that fail
    MaxExpired,    \* bound: ledger rows that leave the 24h window
    None

Target == {"qwen", "openai"}

\* The targets that carry the flag, whatever the deployment has set up.
Sovereign == {"qwen"}

\* Where the adapter of a target sends a prompt: without LLM_BASE_URL the client of qwen is
\* built without a base_url, and the SDK takes its default, api.openai.com.
Endpoint(t) == IF t = "qwen" /\ t \in Configured THEN "vllm" ELSE "cloud"

\* ask: POST /ask; stream: the same with stream=true; agent: POST /agent;
\* search: POST /search; task: validators, grading; summary: the enrichment task;
\* tool: a question an agent's model asks as one of its tools.
AllKinds == {"ask", "stream", "agent", "search", "task", "summary", "tool"}

Policy == [enabled : BOOLEAN, allowed : SUBSET Target, allowCloud : BOOLEAN,
           guard : BOOLEAN]
Routing == {<<>>, <<"qwen">>, <<"openai">>, <<"qwen", "openai">>, <<"openai", "qwen">>}
Settings == [policy : Policy, routing : Routing]

ASSUME KindAssumption == CallKind \subseteq AllKinds \ {"tool"}
ASSUME ConfiguredAssumption == Configured \subseteq Target
ASSUME SettingsAssumption ==
    /\ Policies \subseteq Policy /\ InitialPolicy \in Policy
    /\ Routings \subseteq Routing /\ InitialRouting \in Routing
ASSUME LimitAssumption ==
    /\ RequestLimit \in Nat /\ TokenLimit \in Nat
    /\ MaxSteps \in Nat /\ MaxTools \in Nat
    /\ MaxCalls \in Nat /\ LastArrival \in 0..MaxCalls
    /\ MaxLost \in Nat /\ MaxExpired \in Nat
ASSUME CallerAssumption == IsFiniteSet(Caller)
ASSUME NoneAssumption == None \notin Settings

CallId == 1..MaxCalls

VARIABLES
    settings,  \* committed tenants.settings
    draft,     \* the settings each editor read and will write back
    ledger,    \* rows of llm_usage, oldest first
    expired,   \* how many of them are older than the 24h window
    lost,      \* ledger writes that failed and were only logged
    fate,      \* what became of each prompt, as the providers know it
    shown,     \* targets whose tokens the client of a stream has seen
    made,      \* the kind of each call made
    nextCall,  \* the number of the next gateway call
    pc,        \* where each caller is
    req        \* the locals of each caller

vars == <<settings, draft, ledger, expired, lost, fate, shown, made, nextCall, pc, req>>

Status == {"ok", "error", "blocked", "quota_denied"}
RowTarget == Target \cup {"guard", "embeddings", "none"}
Row == [call : CallId, target : RowTarget, status : Status, tokens : 0..2]
Fate == {"none", "pending", "answered", "failed", "left"}

Locals == [kind : AllKinds, call : CallId,
           snap : Settings \cup {None},  \* the settings the gate loaded
           left : SUBSET Target,         \* the rest of the chain
           steps : 0..MaxSteps,          \* tool rounds of the agent
           tools : 0..MaxTools]          \* tool calls still to run

Labels == {"idle", "quota", "policy", "load", "count", "screen", "try", "wait", "flow",
           "tools", "search", "summary"}

TypeOK ==
    /\ settings \in Settings
    /\ draft \in [Editor -> Settings \cup {None}]
    /\ ledger \in Seq(Row)
    /\ expired \in 0..Len(ledger)
    /\ lost \subseteq CallId \X RowTarget
    /\ fate \in [CallId -> [Target -> Fate]]
    /\ shown \in [CallId -> SUBSET Target]
    /\ made \in [CallId -> AllKinds \cup {"none"}]
    /\ nextCall \in 1..(MaxCalls + 1)
    /\ pc \in [Caller -> Labels]
    /\ req \in [Caller -> Locals \cup {None}]
    /\ \A p \in Caller : pc[p] # "idle" => req[p] \in Locals
    /\ \A p \in Caller :
        pc[p] \in {"count", "screen", "try", "wait", "flow"} => req[p].snap # None
    /\ \A p \in Caller : pc[p] \in {"wait", "flow"} => req[p].left # {}

Init ==
    /\ settings = [policy |-> InitialPolicy, routing |-> InitialRouting]
    /\ draft = [e \in Editor |-> None]
    /\ ledger = <<>>
    /\ expired = 0
    /\ lost = {}
    /\ fate = [c \in CallId |-> [t \in Target |-> "none"]]
    /\ shown = [c \in CallId |-> {}]
    /\ made = [c \in CallId |-> "none"]
    /\ nextCall = 1
    /\ pc = [p \in Caller |-> "idle"]
    /\ req = [p \in Caller |-> None]
-----------------------------------------------------------------------------
(* ---- Routing: which targets a call may use, in which order ------------- *)

\* The tenant's order, else the sovereign target if the deployment has it.
Order(s) ==
    IF s.routing # <<>> THEN s.routing
    ELSE IF "qwen" \in Configured THEN <<"qwen">> ELSE <<"openai">>

Chosen(s) == {Order(s)[i] : i \in DOMAIN Order(s)}

\* Data egress: cloud targets are dropped before anything else is decided.
\* Fault: an order of cloud targets only is kept rather than emptied.
PermittedFailOpen(s) ==
    IF s.policy.allowCloud \/ Chosen(s) \cap Sovereign = {} THEN Chosen(s)
    ELSE Chosen(s) \cap Sovereign
Permitted(s) == IF s.policy.allowCloud THEN Chosen(s) ELSE Chosen(s) \cap Sovereign

\* Targets that cannot work are passed over, unless none can.
Chain(s) ==
    LET usable == Permitted(s) \cap Configured
    IN IF usable # {} THEN usable ELSE Permitted(s)

Precedes(s, t, u) ==
    \E i, j \in DOMAIN Order(s) : i < j /\ Order(s)[i] = t /\ Order(s)[j] = u

\* The target a call is at: the first of what is left of its chain.
\* Fault: the failover target is tried first.
LastLeft(r) ==
    CHOOSE t \in r.left : \A u \in r.left \ {t} : Precedes(r.snap, u, t)
FirstLeft(r) ==
    CHOOSE t \in r.left : \A u \in r.left \ {t} : Precedes(r.snap, t, u)

Current(p) == FirstLeft(req[p])

\* PolicyEngine.enforce: AI suspended, or a whitelist without the model.
Allowed(policy, t) == policy.enabled /\ (policy.allowed = {} \/ t \in policy.allowed)

(* ---- The quota: rows of the last 24 hours ------------------------------- *)

\* Denied attempts consumed no model capacity and do not count.
Counts(i) == ledger[i].status # "quota_denied"

Window == (expired + 1)..Len(ledger)
Requests == {i \in Window : Counts(i)}
Tokens == MapThenSumSet(LAMBDA i : ledger[i].tokens, Requests)

OverQuota ==
    \/ RequestLimit > 0 /\ Cardinality(Requests) >= RequestLimit
    \/ TokenLimit > 0 /\ Tokens >= TokenLimit

(* ---- Shared pieces of the handlers ------------------------------------- *)

Goto(p, label) == pc' = [pc EXCEPT ![p] = label]

\* The call is over, answered or not: a tool's goes back to the agent that asked, any other
\* ends the request.
Return(p) ==
    IF req[p].kind = "tool"
    THEN /\ Goto(p, "tools")
         /\ req' = [req EXCEPT ![p].kind = "agent", ![p].snap = None, ![p].left = {}]
    ELSE Goto(p, "idle") /\ req' = [req EXCEPT ![p] = None]

\* record_usage is best effort: a write that fails is logged and swallowed.
Record(p, target, status, tokens) ==
    \/ /\ ledger' = Append(ledger, [call |-> req[p].call, target |-> target,
                                    status |-> status, tokens |-> tokens])
       /\ UNCHANGED lost
    \/ /\ Cardinality(lost) < MaxLost
       /\ lost' = lost \cup {<<req[p].call, target>>}
       /\ UNCHANGED ledger

Became(p, f) == fate' = [fate EXCEPT ![req[p].call][Current(p)] = f]

SettingsSame == UNCHANGED <<settings, draft>>
LedgerSame == UNCHANGED <<ledger, lost>>
CallsSame == UNCHANGED <<made, nextCall>>

(* ---- The owner's PUT /gateway/policy and /gateway/routing --------------- *)

\* session.get(Tenant): the whole settings value is read.
ReadSettings(e) ==
    /\ draft[e] = None
    /\ draft' = [draft EXCEPT ![e] = settings]
    /\ UNCHANGED <<settings, ledger, expired, lost, fate, shown, made, nextCall, pc, req>>

\* One key is replaced in what was read, and the whole value written back.
PutPolicy(e, policy) ==
    /\ draft[e] # None
    /\ settings' = [draft[e] EXCEPT !.policy = policy]
    /\ draft' = [draft EXCEPT ![e] = None]
    /\ UNCHANGED <<ledger, expired, lost, fate, shown, made, nextCall, pc, req>>

PutRouting(e, routing) ==
    /\ draft[e] # None
    /\ settings' = [draft[e] EXCEPT !.routing = routing]
    /\ draft' = [draft EXCEPT ![e] = None]
    /\ UNCHANGED <<ledger, expired, lost, fate, shown, made, nextCall, pc, req>>

(* ---- The guards of the API routes --------------------------------------- *)

\* A request arrives or a task starts.
Arrive(p, kind) ==
    /\ pc[p] = "idle"
    /\ nextCall <= LastArrival
    /\ req' = [req EXCEPT ![p] = [kind |-> kind, call |-> nextCall, snap |-> None,
                                  left |-> {}, steps |-> 0, tools |-> 0]]
    /\ made' = [made EXCEPT ![nextCall] = kind]
    /\ nextCall' = nextCall + 1
    /\ Goto(p, CASE kind = "task" -> "load"
                 [] kind = "summary" -> "summary"
                 [] OTHER -> "quota")
    /\ LedgerSame /\ SettingsSame /\ UNCHANGED <<expired, fate, shown>>

\* enforce_quota: 429 and a quota_denied row, or on to the next guard. The
\* search route has no policy guard.
GuardQuota(p) ==
    /\ pc[p] = "quota"
    /\ \/ /\ OverQuota
          /\ Record(p, "none", "quota_denied", 0)
          /\ Return(p)
       \/ /\ ~OverQuota
          /\ Goto(p, IF req[p].kind = "search" THEN "search" ELSE "policy")
          /\ LedgerSame /\ UNCHANGED req
    /\ CallsSame /\ SettingsSame /\ UNCHANGED <<expired, fate, shown>>

\* enforce_policy: 403 unless the model of the deployment, which is qwen's,
\* is allowed. The tenant's routing is not consulted.
GuardPolicy(p) ==
    /\ pc[p] = "policy"
    /\ \/ Allowed(settings.policy, "qwen") /\ Goto(p, "load") /\ UNCHANGED req
       \/ ~Allowed(settings.policy, "qwen") /\ Return(p)
    /\ LedgerSame /\ CallsSame /\ SettingsSame /\ UNCHANGED <<expired, fate, shown>>

\* Before any prompt is sent: the retrieval of an ask finds nothing, and the
\* answer is a fixed refusal without a model; or an await raises.
GiveUp(p) ==
    /\ pc[p] \in {"quota", "policy", "load", "count"}
    /\ Return(p)
    /\ LedgerSame /\ CallsSame /\ SettingsSame /\ UNCHANGED <<expired, fate, shown>>

(* ---- AIGateway: the gate and the screen --------------------------------- *)

\* _gate, first await: the settings this call is governed by.
LoadSettings(p) ==
    /\ pc[p] = "load"
    /\ req' = [req EXCEPT ![p].snap = settings]
    /\ Goto(p, "count")
    /\ LedgerSame /\ CallsSame /\ SettingsSame /\ UNCHANGED <<expired, fate, shown>>

\* _gate, second await: the quota, then the chain. No row for a refusal here.
\* Fault: the quota is left to the guard of the routes.
GateUnmetered(p) ==
    /\ pc[p] = "count"
    /\ req' = [req EXCEPT ![p].left = Chain(req[p].snap)]
    /\ Goto(p, "screen")
    /\ LedgerSame /\ CallsSame /\ SettingsSame /\ UNCHANGED <<expired, fate, shown>>
Gate(p) ==
    /\ pc[p] = "count"
    /\ \/ /\ ~OverQuota /\ Permitted(req[p].snap) # {}
          /\ req' = [req EXCEPT ![p].left = Chain(req[p].snap)]
          /\ Goto(p, "screen")
       \/ /\ OverQuota \/ Permitted(req[p].snap) = {}
          /\ Return(p)
    /\ LedgerSame /\ CallsSame /\ SettingsSame /\ UNCHANGED <<expired, fate, shown>>

\* _screen: a prompt that trips the tenant's guard is recorded and refused.
\* Whether a prompt does is left open.
Screen(p) ==
    /\ pc[p] = "screen"
    /\ \/ /\ req[p].snap.policy.guard
          /\ Record(p, "guard", "blocked", 1)
          /\ Return(p)
       \/ /\ Goto(p, "try")
          /\ LedgerSame /\ UNCHANGED req
    /\ CallsSame /\ SettingsSame /\ UNCHANGED <<expired, fate, shown>>

(* ---- AIGateway: the loop over the chain --------------------------------- *)

\* The last failure is raised when nothing of the chain is left. A target the
\* policy disallows is skipped, so that an allowed fallback can still serve.
NextTarget(p) ==
    /\ pc[p] = "try"
    /\ \/ /\ req[p].left = {}
          /\ Return(p)
          /\ UNCHANGED fate
       \/ /\ req[p].left # {} /\ ~Allowed(req[p].snap.policy, Current(p))
          /\ req' = [req EXCEPT ![p].left = @ \ {Current(p)}]
          /\ UNCHANGED <<pc, fate>>
       \/ /\ req[p].left # {} /\ Allowed(req[p].snap.policy, Current(p))
          /\ Became(p, "pending")
          /\ Goto(p, "wait")
          /\ UNCHANGED req
    /\ LedgerSame /\ CallsSame /\ SettingsSame /\ UNCHANGED <<expired, shown>>

\* complete, and a chat_with_tools that asks for no tool: the answer is
\* recorded and returned.
Answer(p) ==
    /\ pc[p] = "wait"
    /\ req[p].kind # "stream"
    /\ Became(p, "answered")
    /\ Record(p, Current(p), "ok", 2)
    /\ Return(p)
    /\ CallsSame /\ SettingsSame /\ UNCHANGED <<expired, shown>>

\* The agent's model asks for n tools, which the code does not limit. After max_steps
\* rounds the wrap-up offers no tools.
\* Fault: one round too many.
UseToolsOnceMore(p, n) ==
    /\ pc[p] = "wait"
    /\ req[p].kind = "agent"
    /\ req[p].steps <= MaxSteps
    /\ Became(p, "answered")
    /\ Record(p, Current(p), "ok", 2)
    /\ req' = [req EXCEPT ![p].steps = @ + 1, ![p].tools = n, ![p].snap = None, ![p].left = {}]
    /\ Goto(p, "tools")
    /\ CallsSame /\ SettingsSame /\ UNCHANGED <<expired, shown>>
\* Fault: max_steps is not enforced.
UseToolsForEver(p, n) ==
    /\ pc[p] = "wait"
    /\ req[p].kind = "agent"
    /\ Became(p, "answered")
    /\ Record(p, Current(p), "ok", 2)
    /\ req' = [req EXCEPT ![p].tools = n, ![p].snap = None, ![p].left = {}]
    /\ Goto(p, "tools")
    /\ CallsSame /\ SettingsSame /\ UNCHANGED <<expired, shown>>
UseTools(p, n) ==
    /\ pc[p] = "wait"
    /\ req[p].kind = "agent"
    /\ req[p].steps < MaxSteps
    /\ Became(p, "answered")
    /\ Record(p, Current(p), "ok", 2)
    /\ req' = [req EXCEPT ![p].steps = @ + 1, ![p].tools = n, ![p].snap = None, ![p].left = {}]
    /\ Goto(p, "tools")
    /\ CallsSame /\ SettingsSame /\ UNCHANGED <<expired, shown>>

\* dispatch_tool: a search is metered; a look-up of documents, and a tool that raises, is not.
SearchTool(p) ==
    /\ pc[p] = "tools"
    /\ req[p].tools > 0
    /\ req' = [req EXCEPT ![p].tools = @ - 1]
    /\ Record(p, "embeddings", "ok", 1) \/ LedgerSame
    /\ CallsSame /\ SettingsSame /\ UNCHANGED <<expired, fate, shown, pc>>

\* A caller that is under way makes another call of the gateway.
CallAgain(p, kind) ==
    /\ nextCall <= MaxCalls
    /\ made' = [made EXCEPT ![nextCall] = kind]
    /\ nextCall' = nextCall + 1
    /\ Goto(p, "load")
    /\ LedgerSame /\ SettingsSame /\ UNCHANGED <<expired, fate, shown>>

\* dispatch_tool: a question is a call of its own, through its own gate.
AskTool(p) ==
    /\ pc[p] = "tools"
    /\ req[p].tools > 0
    /\ req' = [req EXCEPT ![p].kind = "tool", ![p].call = nextCall, ![p].tools = @ - 1]
    /\ CallAgain(p, "tool")

\* All tools have been run: the agent's model is called again with what they found.
NextRound(p) ==
    /\ pc[p] = "tools"
    /\ req[p].tools = 0
    /\ req' = [req EXCEPT ![p].call = nextCall]
    /\ CallAgain(p, "agent")

\* complete and complete_with_tools on an LLMError: an error row, then the
\* next target, or the error if this was the last.
\* Fault: the row is only written when the error is raised.
FailUnrecorded(p) ==
    /\ pc[p] = "wait"
    /\ req[p].kind # "stream"
    /\ Became(p, "failed")
    /\ req' = [req EXCEPT ![p].left = @ \ {Current(p)}]
    /\ Goto(p, "try")
    /\ LedgerSame /\ CallsSame /\ SettingsSame /\ UNCHANGED <<expired, shown>>
Fail(p) ==
    /\ pc[p] = "wait"
    /\ req[p].kind # "stream"
    /\ Became(p, "failed")
    /\ Record(p, Current(p), "error", 1)
    /\ IF req[p].left \ {Current(p)} # {}
       THEN /\ req' = [req EXCEPT ![p].left = @ \ {Current(p)}]
            /\ Goto(p, "try")
       ELSE Return(p)
    /\ CallsSame /\ SettingsSame /\ UNCHANGED <<expired, shown>>

(* ---- AIGateway.stream ---------------------------------------------------- *)

\* A token reaches the client.
Token(p) ==
    /\ pc[p] = "wait"
    /\ req[p].kind = "stream"
    /\ shown' = [shown EXCEPT ![req[p].call] = @ \cup {Current(p)}]
    /\ Goto(p, "flow")
    /\ LedgerSame /\ CallsSame /\ SettingsSame /\ UNCHANGED <<expired, fate, req>>

\* The provider ends the stream, perhaps with no token at all.
EndStream(p) ==
    /\ pc[p] \in {"wait", "flow"}
    /\ req[p].kind = "stream"
    /\ Became(p, "answered")
    /\ Record(p, Current(p), "ok", IF pc[p] = "flow" THEN 2 ELSE 1)
    /\ Return(p)
    /\ CallsSame /\ SettingsSame /\ UNCHANGED <<expired, shown>>

\* The provider refuses the request (the adapter makes that an LLMError). No
\* token was sent: fail over silently if there is a target left.
RefuseStream(p) ==
    /\ pc[p] = "wait"
    /\ req[p].kind = "stream"
    /\ Became(p, "failed")
    /\ IF req[p].left \ {Current(p)} # {}
       THEN /\ req' = [req EXCEPT ![p].left = @ \ {Current(p)}]
            /\ Goto(p, "try")
            /\ LedgerSame
       ELSE Record(p, Current(p), "error", 1) /\ Return(p)
    /\ CallsSame /\ SettingsSame /\ UNCHANGED <<expired, shown>>

\* The connection to the provider breaks while tokens are read: the adapter
\* does not wrap that error, the gateway does not catch it, nothing is recorded.
\* Fault: it is caught like a refusal.
BreakAndFailOver(p) ==
    /\ pc[p] \in {"wait", "flow"}
    /\ req[p].kind = "stream"
    /\ Became(p, "failed")
    /\ req' = [req EXCEPT ![p].left = @ \ {Current(p)}]
    /\ Goto(p, "try")
    /\ LedgerSame /\ CallsSame /\ SettingsSame /\ UNCHANGED <<expired, shown>>
BreakStream(p) ==
    /\ pc[p] \in {"wait", "flow"}
    /\ req[p].kind = "stream"
    /\ Became(p, "failed")
    /\ Return(p)
    /\ LedgerSame /\ CallsSame /\ SettingsSame /\ UNCHANGED <<expired, shown>>

\* The client goes away: the generator is closed where it stands.
LeaveStream(p) ==
    /\ pc[p] \in {"wait", "flow"}
    /\ req[p].kind = "stream"
    /\ Became(p, "left")
    /\ Return(p)
    /\ LedgerSame /\ CallsSame /\ SettingsSame /\ UNCHANGED <<expired, shown>>

(* ---- Beside the gateway -------------------------------------------------- *)

\* SearchService meters a search on the embeddings model; it may also fail.
Search(p) ==
    /\ pc[p] = "search"
    /\ \/ Record(p, "embeddings", "ok", 1)
       \/ LedgerSame
    /\ Return(p)
    /\ CallsSame /\ SettingsSame /\ UNCHANGED <<expired, fate, shown>>

\* The model get_llm() returns, which the summariser calls directly.
DeploymentTarget == IF "qwen" \in Configured THEN "qwen" ELSE "openai"

Summarise(p) ==
    /\ pc[p] = "summary"
    /\ \E f \in {"answered", "failed"} :
        fate' = [fate EXCEPT ![req[p].call][DeploymentTarget] = f]
    /\ Return(p)
    /\ LedgerSame /\ CallsSame /\ SettingsSame /\ UNCHANGED <<expired, shown>>

\* A row becomes older than 24 hours.
Expire ==
    /\ expired < Len(ledger) /\ expired < MaxExpired
    /\ expired' = expired + 1
    /\ UNCHANGED <<settings, draft, ledger, lost, fate, shown, made, nextCall, pc, req>>

-----------------------------------------------------------------------------
\* No call is under way and no more will be made, or the call numbers have run out, which
\* they do not when MaxCalls leaves one for each round and tool of every agent.
Quiet ==
    /\ nextCall > LastArrival
    /\ (\A p \in Caller : pc[p] = "idle") \/ nextCall > MaxCalls
    /\ UNCHANGED vars

\* What a caller does by itself, the providers' answers included.
Proceed(p) ==
    \/ GuardQuota(p) \/ GuardPolicy(p) \/ LoadSettings(p) \/ Gate(p) \/ Screen(p)
    \/ NextTarget(p)
    \/ Answer(p) \/ Fail(p)
    \/ (\E n \in 1..MaxTools : UseTools(p, n)) \/ SearchTool(p) \/ AskTool(p) \/ NextRound(p)
    \/ Token(p) \/ EndStream(p) \/ RefuseStream(p) \/ BreakStream(p) \/ LeaveStream(p)
    \/ Search(p) \/ Summarise(p)

Advance(p) == Proceed(p) \/ GiveUp(p)

Next ==
    \/ \E p \in Caller :
        \/ \E kind \in CallKind : Arrive(p, kind)
        \/ Advance(p)
    \/ \E e \in Editor :
        \/ ReadSettings(e)
        \/ \E policy \in Policies : PutPolicy(e, policy)
        \/ \E routing \in Routings : PutRouting(e, routing)
    \/ Expire
    \/ Quiet

Spec == Init /\ [][Next]_vars

\* Every await ends. The client of a provider gives up by itself (the SDK does so after ten
\* minutes, external); that the database answers is assumed, and no handler here waits for
\* a lock of another. Nobody relies on a failure to happen.
Fairness == \A p \in Caller : WF_vars(Proceed(p))

-----------------------------------------------------------------------------
(* ---- Properties -------------------------------------------------------- *)

Asking(p) == pc[p] \in {"wait", "flow"}

\* Sovereign lock: a call governed by a policy without cloud sends its prompt nowhere but to
\* the deployment's own endpoint, not even as the failover, provided that there is such an
\* endpoint: without one the code does not keep this promise (see NoPromptLeaves)
\* (AIGateway._gate).
LockedStaysHome ==
    "qwen" \in Configured =>
        \A p \in Caller :
            Asking(p) /\ ~req[p].snap.policy.allowCloud => Endpoint(Current(p)) = "vllm"

\* A prompt goes to a target only after every target the tenant put before it,
\* and that the policy allows, has been tried by this call and has failed
\* (the loops of complete, stream and complete_with_tools).
FallbackOnlyAfterFailure ==
    \A p \in Caller : Asking(p) =>
        \A t \in Chain(req[p].snap) :
            /\ Precedes(req[p].snap, t, Current(p))
            /\ Allowed(req[p].snap.policy, t)
            => fate[req[p].call][t] = "failed"

\* The client of a stream reads the tokens of one target: what has been
\* yielded cannot be un-yielded, so no other target is asked after it.
OneVoice ==
    \A c \in CallId, t \in Target :
        t \in shown[c] => \A u \in Target \ {t} : fate[c][u] \in {"none", "failed"}
                                                  /\ u \notin shown[c]

RowsOf(c, t) == {i \in DOMAIN ledger : ledger[i].call = c /\ ledger[i].target = t}

\* The ledger against the providers' own records: at most one row for a prompt
\* and target, saying what happened; one for every answer, and one for every
\* failure of a call that is not streamed, unless the write itself was lost.
LedgerTellsTruth ==
    \A c \in CallId, t \in Target :
        /\ Cardinality(RowsOf(c, t)) <= 1
        /\ \A i \in RowsOf(c, t) :
            \/ ledger[i].status = "ok" /\ fate[c][t] = "answered"
            \/ ledger[i].status = "error" /\ fate[c][t] = "failed"
        /\ \/ fate[c][t] = "answered" /\ made[c] # "summary"
           \/ fate[c][t] = "failed" /\ made[c] \notin {"stream", "summary"}
           => RowsOf(c, t) # {} \/ <<c, t>> \in lost

\* The rows one admission may add before the quota is looked at again: one per
\* target, and a search for each tool the reply asks for; a question that is asked as a
\* tool is a call, which is admitted anew.
MaxRows == Cardinality(Target) + MaxTools

\* The check and the rows it leads to are not one transaction, so concurrent
\* calls overshoot the request quota; but by no more than each of them can
\* add, however they interleave, and rows of refused calls never count.
OvershootBounded ==
    RequestLimit > 0 =>
        Cardinality(Requests) <= RequestLimit - 1 + Cardinality(Caller) * MaxRows

\* Every call returns: the chain is finite, and so is the agent's loop, whatever its model
\* asks for in each round (agent.py:125-169).
EveryCallReturns == \A p \in Caller : pc[p] # "idle" ~> pc[p] = "idle"

(* ---- What the code's own comments say, and the code does not do -------- *)

\* "This tenant's prompts can never reach OpenAI": with the lock on since the beginning and
\* never lifted, no prompt is sent to the cloud. Two things stand against it on a deployment
\* without LLM_BASE_URL: the summariser does not ask the gateway, and the chain of a call
\* that does keeps qwen, whose client then has the SDK's default endpoint.
NoPromptLeaves ==
    (\A policy \in Policies \cup {InitialPolicy} : ~policy.allowCloud) =>
        \A c \in CallId, t \in Target :
            fate[c][t] # "none" => Endpoint(t) = "vllm"
=============================================================================

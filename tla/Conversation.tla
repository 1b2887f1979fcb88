---------------------------- MODULE Conversation ----------------------------
(***************************************************************************)
(* A question and its answer: AskAiService.ask and stream_ask, the route   *)
(* around them, and SessionMemory, which keeps the turns of a session in   *)
(* one JSONB column that is read whole and written back whole.             *)
(*                                                                         *)
(* A turn is named by the call that made it and stands for its two         *)
(* messages. Retrieval ends with or without hits; prompt and answer are    *)
(* what they may change here: the history the prompt was built on.         *)
(***************************************************************************)
EXTENDS Naturals, Sequences

CONSTANTS
    Call,      \* requests to /v1/ask
    Session,   \* ids of sessions: a uuid4 of the server, or one a client brings
    Principal, \* who asks: a user of a tenant
    MaxTurns,  \* _MAX_TURNS
    None

VARIABLES
    asks,      \* what each call was sent with
    pc,        \* where each call is
    seen,      \* the turns its prompt was built on
    copy,      \* the turns it has read in order to append its own
    rows,      \* chat_sessions: whose it is, and its turns
    answered,  \* calls whose client has the whole answer
    audited,   \* calls with a row in the audit log
    crossed    \* sessions two appends to which overlapped

vars == <<asks, pc, seen, copy, rows, answered, audited, crossed>>

Ask == [who : Principal, session : Session, streamed : BOOLEAN, after : SUBSET Call]
Running == {"load", "search", "append", "commit", "tell", "audit"}

TypeOK ==
    /\ asks \in [Call -> Ask \cup {None}]
    /\ pc \in [Call -> Running \cup {"idle", "ended", "gone"}]
    /\ seen \in [Call -> Seq(Call)]
    /\ copy \in [Call -> Seq(Call) \cup {None}]
    /\ rows \in [Session -> [who : Principal, turns : Seq(Call)] \cup {None}]
    /\ \A s \in Session : rows[s] # None => Len(rows[s].turns) \in 1..MaxTurns
    /\ answered \subseteq Call /\ audited \subseteq Call
    /\ crossed \subseteq Session

Init ==
    /\ asks = [c \in Call |-> None]
    /\ pc = [c \in Call |-> "idle"]
    /\ seen = [c \in Call |-> <<>>]
    /\ copy = [c \in Call |-> None]
    /\ rows = [s \in Session |-> None]
    /\ answered = {} /\ audited = {} /\ crossed = {}
-----------------------------------------------------------------------------
At(c, where) == pc' = [pc EXCEPT ![c] = where]
Forget(c) == seen' = [seen EXCEPT ![c] = <<>>]
Drop(c) == Forget(c) /\ copy' = [copy EXCEPT ![c] = None] /\ At(c, "gone")

InSession(s) == {c \in Call : asks[c] # None /\ asks[c].session = s}
Members(seq) == {seq[i] : i \in DOMAIN seq}

\* SessionMemory finds the rows of the tenant, whichever of its users asks.
Found(p, s) == rows[s] # None /\ rows[s].who.tenant = p.tenant
Turns(p, s) == IF Found(p, s) THEN rows[s].turns ELSE <<>>

\* list_sessions and get_session show a user the sessions that are the user's own.
Listed(p) == {s \in Session : rows[s] # None /\ rows[s].who = p}

\* Fault: the window counts messages, as the slice does without its factor of two.
WindowOfMessages(turns) ==
    IF 2 * Len(turns) <= MaxTurns THEN turns
    ELSE SubSeq(turns, Len(turns) - MaxTurns \div 2 + 1, Len(turns))
\* messages[-max_turns * 2:]
Window(turns) ==
    IF Len(turns) <= MaxTurns THEN turns
    ELSE SubSeq(turns, Len(turns) - MaxTurns + 1, Len(turns))

\* A client asks in a session it names, or in a new one. Nothing keeps two calls of one
\* session apart: a second tab, a second user of the tenant, a program.
Send(c, p, s, streamed) ==
    /\ pc[c] = "idle"
    /\ asks' = [asks EXCEPT ![c] = [who |-> p, session |-> s, streamed |-> streamed,
                                    after |-> {d \in answered \cap InSession(s) :
                                                 asks[d].who.tenant = p.tenant}]]
    /\ At(c, "load")
    /\ UNCHANGED <<seen, copy, rows, answered, audited, crossed>>

Load(c) ==
    /\ pc[c] = "load"
    /\ seen' = [seen EXCEPT ![c] = Turns(asks[c].who, asks[c].session)]
    /\ At(c, "search")
    /\ UNCHANGED <<asks, copy, rows, answered, audited, crossed>>

\* build_rag_messages puts the whole history between the system prompt and the question.
PromptHistory(c) == seen[c]

\* Retrieval, then the gateway's answer; without hits the answer
\* is the refusal, and no model is called.
Generate(c) ==
    /\ pc[c] = "search"
    /\ At(c, "append")
    /\ UNCHANGED <<asks, seen, copy, rows, answered, audited, crossed>>

Appending(s) == {c \in InSession(s) : pc[c] = "commit"}

\* Fault: the turn is added to the history the prompt was built on.
AppendReadsLoaded(c) ==
    /\ pc[c] = "append"
    /\ copy' = [copy EXCEPT
                  ![c] = IF Found(asks[c].who, asks[c].session) THEN seen[c] ELSE None]
    /\ crossed' = crossed \cup {s \in {asks[c].session} : Appending(s) # {}}
    /\ Forget(c)
    /\ At(c, "commit")
    /\ UNCHANGED <<asks, rows, answered, audited>>
\* SessionMemory.append opens a session and reads the row.
AppendReads(c) ==
    /\ pc[c] = "append"
    /\ copy' = [copy EXCEPT
                  ![c] = IF Found(asks[c].who, asks[c].session)
                         THEN rows[asks[c].session].turns ELSE None]
    /\ crossed' = crossed \cup {s \in {asks[c].session} : Appending(s) # {}}
    /\ Forget(c)
    /\ At(c, "commit")
    /\ UNCHANGED <<asks, rows, answered, audited>>

\* The row it did not find is inserted by somebody else, or belongs to another tenant.
Collides(c) == copy[c] = None /\ rows[asks[c].session] # None

Turn(c) == Window(Append(IF copy[c] = None THEN <<>> ELSE copy[c], c))

AppendCommits(c) ==
    /\ pc[c] = "commit" /\ ~Collides(c)
    /\ rows' = [rows EXCEPT ![asks[c].session] =
                  [who |-> IF copy[c] = None THEN asks[c].who ELSE @.who,
                   turns |-> Turn(c)]]
    /\ copy' = [copy EXCEPT ![c] = None]
    /\ At(c, IF asks[c].streamed THEN "tell" ELSE "audit")
    /\ UNCHANGED <<asks, seen, answered, audited, crossed>>

\* Retrieval, the gateway or the database raises; so does a second insert of one id.
Fail(c) ==
    /\ pc[c] \in {"load", "search", "append", "commit"}
    /\ Drop(c)
    /\ UNCHANGED <<asks, rows, answered, audited, crossed>>

\* The done event of a stream.
Tell(c) ==
    /\ pc[c] = "tell"
    /\ answered' = answered \cup {c}
    /\ At(c, "audit")
    /\ UNCHANGED <<asks, seen, copy, rows, audited, crossed>>

\* record_action swallows what goes wrong. It follows the last event of a stream, and
\* comes before the body of a plain answer.
Audit(c) ==
    /\ pc[c] = "audit"
    /\ audited' \in {audited, audited \cup {c}}
    /\ answered' = answered \cup {c}
    /\ At(c, "ended")
    /\ UNCHANGED <<asks, seen, copy, rows, crossed>>

\* A client that closes its stream cancels the generator wherever it is.
Leave(c) ==
    /\ pc[c] \in Running /\ asks[c].streamed
    /\ Drop(c)
    /\ UNCHANGED <<asks, rows, answered, audited, crossed>>

Next ==
    \E c \in Call :
        \/ \E p \in Principal, s \in Session, b \in BOOLEAN : Send(c, p, s, b)
        \/ Load(c) \/ Generate(c)
        \/ AppendReads(c) \/ AppendCommits(c)
        \/ Tell(c) \/ Audit(c) \/ Fail(c) \/ Leave(c)

Spec == Init /\ [][Next]_vars
-----------------------------------------------------------------------------
\* An answer its client was told is complete, or that an auditor can read, is in the
\* history of its session, which the sidebar lists for the user who began it, unless
\* _MAX_TURNS later ones pushed it out or two appends to the session overlapped: the
\* minutes between load and append lose nothing (memory.py:65-98, service.py:208-220,
\* routes/ask.py:93-118, 150-167).
AnswersAreKept ==
    \A c \in answered \cup audited :
        LET s == asks[c].session
            kept == Turns(asks[c].who, s)
        IN  \/ c \in Members(kept) /\ (kept[1] = c => s \in Listed(asks[c].who))
            \/ Len(kept) = MaxTurns
            \/ s \in crossed

\* A follow-up is answered from a prompt that holds every answer its client had in the
\* session when it asked, with the same two exceptions (memory.py:30-56,
\* prompts/rag.py:72-111).
FollowUpsAreInformed ==
    \A c \in Call :
        pc[c] = "search" =>
            \/ asks[c].after \subseteq Members(PromptHistory(c))
            \/ Len(PromptHistory(c)) = MaxTurns
            \/ asks[c].session \in crossed
=============================================================================
